---- MODULE Spec2Model ----
(***************************************************************************)
(* Conversation state machine of the Pollination AI chat client            *)
(* (src/src/App.tsx, ChatApp) together with the request classifier of      *)
(* src/src/services/pollinationApi.ts.                                     *)
(*                                                                         *)
(* React state (chats, messages, activeChat, isTyping) is the committed    *)
(* state; localStorage is lsChats / lsMsgs.  An event handler or an async  *)
(* continuation is one action: its batched setState calls followed by the  *)
(* effects that the resulting render runs (save-chats, save-messages).     *)
(* An async handler keeps the values of the render it was created in       *)
(* (its closure): the model stores them in the send's record.              *)
(*                                                                         *)
(* Texts are sequences of one-character strings.                           *)
(***************************************************************************)
EXTENDS Naturals, Integers, Sequences, FiniteSets, TLC

\* ------------------------------------------------------------------ bounds
MaxChats == 3      \* chats ever created (Date.now() ids 1..MaxChats)
MaxSends == 2      \* invocations of handleSendMessage from the UI
SessionSends == 1  \* sends of the two-user specification Spec
SendsChats == 2    \* chats ever created in the two-send specification SpecSends

Users == {"u1", "u2"}
NoUser == ""
NoChat == 0

\* ------------------------------------------------------------------- texts
Range(s) == {s[i] : i \in 1..Len(s)}

UpperAlpha == <<"A","B","C","D","E","F","G","H","I","J","K","L","M","N","O","P","Q","R","S","T","U","V","W","X","Y","Z">>
LowerAlpha == <<"a","b","c","d","e","f","g","h","i","j","k","l","m","n","o","p","q","r","s","t","u","v","w","x","y","z">>

LowerChar(ch) ==
    IF \E i \in 1..26 : UpperAlpha[i] = ch
    THEN LowerAlpha[CHOOSE i \in 1..26 : UpperAlpha[i] = ch]
    ELSE ch

\* String.prototype.toLowerCase
toLowerCase(t) == [i \in 1..Len(t) |-> LowerChar(t[i])]

\* String.prototype.includes
includes(t, kw) ==
    \E i \in 1..(Len(t) + 1) :
        /\ i + Len(kw) - 1 <= Len(t)
        /\ SubSeq(t, i, i + Len(kw) - 1) = kw

\* String.prototype.slice(0, n)
slice0(t, n) == SubSeq(t, 1, IF Len(t) < n THEN Len(t) ELSE n)

\* A lone UTF-16 surrogate, the one code unit encodeURIComponent rejects.
LoneSurrogate == "\\uD800"

imageKeywords ==
    << <<"/", "i", "m", "a", "g", "i", "n", "e">>,
       <<"g", "e", "n", "e", "r", "a", "t", "e", " ", "i", "m", "a", "g", "e">>,
       <<"c", "r", "e", "a", "t", "e", " ", "i", "m", "a", "g", "e">>,
       <<"d", "r", "a", "w">>,
       <<"p", "a", "i", "n", "t">>,
       <<"s", "k", "e", "t", "c", "h">>,
       <<"s", "h", "o", "w", " ", "m", "e">>,
       <<"p", "i", "c", "t", "u", "r", "e", " ", "o", "f">>,
       <<"i", "m", "a", "g", "e", " ", "o", "f">>,
       <<"p", "h", "o", "t", "o", " ", "o", "f">>,
       <<"i", "l", "l", "u", "s", "t", "r", "a", "t", "i", "o", "n", " ", "o", "f">> >>

rawKeywords ==
    << <<"/", "r", "a", "w">>,
       <<"-", "-", "r", "a", "w">>,
       <<"e", "x", "a", "c", "t", " ", "p", "r", "o", "m", "p", "t">>,
       <<"n", "o", " ", "e", "n", "h", "a", "n", "c", "e", "m", "e", "n", "t">>,
       <<"r", "a", "w", " ", "p", "r", "o", "m", "p", "t">> >>

\* pollinationAPI.isImageRequest
isImageRequest(message) ==
    LET lowerMessage == toLowerCase(message)
    IN  \E k \in 1..Len(imageKeywords) : includes(lowerMessage, imageKeywords[k])

\* pollinationAPI.isRawImageRequest
isRawImageRequest(message) ==
    LET lowerMessage == toLowerCase(message)
    IN  \E k \in 1..Len(rawKeywords) : includes(lowerMessage, rawKeywords[k])

\* encodeURIComponent throws URIError on a lone surrogate (generateImage, line
\* 177); generateImage turns it into Error('Failed to generate image').  The
\* prompt cleaners only remove ASCII directive prefixes, so the prompt holds a
\* lone surrogate exactly when the message does.
generateImageThrows(message) == LoneSurrogate \in Range(message)

NewChatTitle == <<"N", "e", "w", " ", "C", "h", "a", "t">>
StartText == <<"S", "t", "a", "r", "t", " ", "a", " ", "c", "o", "n", "v", "e", "r", "s", "a", "t", "i", "o", "n", ".", ".", ".">>
Ellipsis == <<".", ".", ".">>

\* The message texts the model sends: three of the suggested prompts of the
\* empty chat (ChatInterface), and two typed texts.
Contents ==
    << <<"H", "e", "l", "p", " ", "m", "e", " ", "w", "r", "i", "t", "e", " ", "a", " ", "p", "r", "o", "f", "e", "s", "s", "i", "o", "n", "a", "l", " ", "e", "m", "a", "i", "l">>,
       <<"/", "i", "m", "a", "g", "i", "n", "e", " ", "a", " ", "c", "u", "t", "e", " ", "r", "o", "b", "o", "t", " ", "i", "n", " ", "a", " ", "g", "a", "r", "d", "e", "n">>,
       <<"/", "r", "a", "w", " ", "m", "i", "n", "i", "m", "a", "l", "i", "s", "t", " ", "l", "o", "g", "o", " ", "d", "e", "s", "i", "g", "n">>,
       <<"/", "I", "m", "a", "g", "i", "n", "e", " ", "/", "R", "A", "W", " ", "a", " ", "r", "e", "d", " ", "a", "p", "p", "l", "e">>,
       <<"d", "r", "a", "w", " ", LoneSurrogate>> >>

ContentIds == 1..Len(Contents)

\* The classification of each text of Contents, computed once.
contentIsRaw == [c \in ContentIds |-> isRawImageRequest(Contents[c])]
contentIsImage == [c \in ContentIds |-> isImageRequest(Contents[c])]
contentImageThrows == [c \in ContentIds |-> generateImageThrows(Contents[c])]
suggestedPrompts == {1, 2, 3}


\* ------------------------------------------------------------------- state
VARIABLES
    user,        \* useAuth().user: the signed-in user's id, NoUser when signed out
    chats,       \* useState<Chat[]>: sequence of Chat objects
    messages,    \* useState<MessageType[]>: the in-memory message log
    activeChat,  \* useState: id of the active chat, NoChat for ''
    isTyping,    \* useState(false): the typing indicator
    lsChats,     \* localStorage `pollination-chats-${user.id}`
    lsMsgs,      \* localStorage `pollination-messages-${user.id}-${chatId}`
    sends,       \* the invocations of handleSendMessage, with their closures
    nextId,      \* Date.now() of the next handleNewChat: ids grow with time
    lastDelete,  \* history: the handleDeleteChat call that produced this state, if one did
    api          \* the last call of a function of the service layer with its result

\* No handleDeleteChat call produced the state.
NoDelete == [id |-> NoChat, wasActive |-> FALSE]

\* No function of the service layer has been called.
NoCall == [op |-> "none"]

chatVars == <<user, chats, messages, activeChat, isTyping, lsChats, lsMsgs, sends, nextId, lastDelete>>
vars == <<user, chats, messages, activeChat, isTyping, lsChats, lsMsgs, sends, nextId, lastDelete, api>>

ChatIds == 1..MaxChats
SendIds == 1..MaxSends

\* A Chat object.  `ref` is the identity of the JavaScript object: two list
\* entries with the same ref are one object, so an in-place assignment to one
\* shows in the other.  JSON in localStorage has no identity (ref = 0).
\* `timestamp` is the constant 'Just now' everywhere and is left out.
\* `owner` is not a field of the program: it records the user who was signed
\* in when the chat was created, for the statements about users.
Chat(id, title, lastMessage, isActive, ref, owner) ==
    [id |-> id, title |-> title, lastMessage |-> lastMessage, isActive |-> isActive, ref |-> ref,
     owner |-> owner]

\* A message of the log: the send that produced it and which of that send's
\* messages it is.  role "user" is the user's message (isUser = true); "text"
\* is a generated reply, "image" a generated reply with imageUrl, "raw" the
\* markdown template of a raw image, "error" the fixed error message.
Message(sid, role) == [sid |-> sid, role |-> role]

\* One invocation of handleSendMessage from the UI.
\*   pc         "idle" not called yet, "timer" waiting for its setTimeout,
\*              "files" awaiting processAttachedFiles, "calls" awaiting the
\*              generation calls, "done" returned
\*   c, att     the arguments: index of the text in Contents, attachments
\*   clActive, clMessages, clChats   activeChat, messages, chats of its closure
\*   branch     the branch of the dispatch taken
\*   txt, img   the text-generation and the image-generation call
\*   owner, noChat, created, retries   history for the statements: the user
\*              who sent, whether no chat was active, the chats this send
\*              created, the runs of its setTimeout callback
IdleSend ==
    [pc |-> "idle", c |-> 0, att |-> "none", clActive |-> NoChat, clMessages |-> <<>>,
     clChats |-> <<>>, txt |-> "none", img |-> "none", branch |-> "none",
     owner |-> NoUser, noChat |-> FALSE, created |-> 0, retries |-> 0]

Max(S) == CHOOSE x \in S : \A y \in S : y <= x

\* JSON.stringify / JSON.parse of the chat list: values without identity.
Stringify(chs) == [i \in 1..Len(chs) |-> [chs[i] EXCEPT !.ref = 0]]

\* ---------------------------------------------------------- object identity
RECURSIVE ClosureRefs(_, _)
ClosureRefs(sT, k) ==
    IF k = 0 THEN <<>>
    ELSE ClosureRefs(sT, k - 1) \o [i \in 1..Len(sT[k].clChats) |-> sT[k].clChats[i].ref]

AllRefs(chT, sT) == [i \in 1..Len(chT) |-> chT[i].ref] \o ClosureRefs(sT, MaxSends)

\* A number above every object identity in use (identities are renumbered
\* from 1 after every step and there are at most this many list entries):
\* the objects a handler creates get RefBase + i.
RefBase == MaxChats * (MaxSends + 1)

\* Identities are renumbered in order of first appearance; only which entries
\* are the same object matters.
Rank(all, r) ==
    IF r = 0 THEN 0
    ELSE LET first == CHOOSE i \in 1..Len(all) : all[i] = r /\ \A j \in 1..(i - 1) : all[j] # r
         IN  Cardinality({all[j] : j \in 1..first} \ {0})

CanonList(all, chs) == [i \in 1..Len(chs) |-> [chs[i] EXCEPT !.ref = Rank(all, chs[i].ref)]]

CanonChats(chT, sT) == CanonList(AllRefs(chT, sT), chT)

CanonSends(chT, sT) ==
    [s \in SendIds |-> [sT[s] EXCEPT !.clChats = CanonList(AllRefs(chT, sT), sT[s].clChats)]]

\* ------------------------------------------------------------------ effects
\* useEffect(..., [chats, user]): save chats
saveChats(u, chs, lc) ==
    IF u # NoUser /\ Len(chs) > 0 THEN [lc EXCEPT ![u] = Stringify(chs)] ELSE lc

\* useEffect(..., [messages, user, activeChat]): save messages
saveMessages(u, act, msgs, lm) ==
    IF u # NoUser /\ act # NoChat /\ Len(msgs) > 0 THEN [lm EXCEPT ![u][act] = msgs] ELSE lm

\* A load that finds nothing under the key.
getMessages_absent(lm, u, id) == <<>>

\* localStorage.getItem + JSON.parse, `saved ? JSON.parse(saved) : []`.  The
\* two save effects never store an empty array, so an absent key and the empty
\* sequence are the same value here.
getMessages(lm, u, id) == lm[u][id]

\* One render: the batched state of a handler is committed and the effects of
\* that render run, in the order of their declaration.
Commit(u, chT, msgs, act, typ, sT, lc, lm) ==
    /\ user' = u
    /\ chats' = CanonChats(chT, sT)
    /\ messages' = msgs
    /\ activeChat' = act
    /\ isTyping' = typ
    /\ sends' = CanonSends(chT, sT)
    /\ lsChats' = saveChats(u, chT, lc)
    /\ lsMsgs' = saveMessages(u, act, msgs, lm)

\* chats.find(chat => chat.isActive)
findActive(chs) ==
    IF \E i \in 1..Len(chs) : chs[i].isActive
    THEN chs[CHOOSE i \in 1..Len(chs) : chs[i].isActive /\ \A j \in 1..(i - 1) : ~chs[j].isActive].id
    ELSE NoChat

Init ==
    /\ user = NoUser
    /\ chats = <<>>
    /\ messages = <<>>
    /\ activeChat = NoChat
    /\ isTyping = FALSE
    /\ lsChats = [u \in Users |-> <<>>]
    /\ lsMsgs = [u \in Users |-> [id \in ChatIds |-> <<>>]]
    /\ sends = [s \in SendIds |-> IdleSend]
    /\ nextId = 1
    /\ lastDelete = NoDelete
    /\ api = NoCall

\* ------------------------------------------------------- session (user) change
\* useEffect(..., [user]) with a user: the render that sees the new user first
\* runs the two save effects on the state it still holds, then loads.
SignIn(u) ==
    /\ user = NoUser
    /\ LET lc1 == saveChats(u, chats, lsChats)
           lm1 == saveMessages(u, activeChat, messages, lsMsgs)
           savedChats == lc1[u]
           parsedChats == [i \in 1..Len(savedChats) |-> [savedChats[i] EXCEPT !.ref = RefBase + i]]
           act == findActive(parsedChats)
       IN  /\ IF Len(savedChats) > 0
              THEN Commit(u, parsedChats,
                          IF act # NoChat THEN getMessages(lm1, u, act) ELSE <<>>,
                          act, isTyping, sends, lc1, lm1)
              ELSE Commit(u, <<>>, <<>>, NoChat, isTyping, sends, lc1, lm1)
           /\ UNCHANGED nextId /\ lastDelete' = NoDelete /\ UNCHANGED api

\* useEffect(..., [user]) without a user: clear state
SignOut ==
    /\ user # NoUser
    /\ Commit(NoUser, <<>>, <<>>, NoChat, isTyping, sends, lsChats, lsMsgs)
    /\ UNCHANGED nextId /\ lastDelete' = NoDelete /\ UNCHANGED api

\* ------------------------------------------------------------ chat handlers
\* A new chat appended without deactivating the existing chats.
newChatList_keepActive(chs, newChatId, owner) ==
    [i \in 1..Len(chs) |-> [chs[i] EXCEPT !.ref = RefBase + i]]
        \o << Chat(newChatId, NewChatTitle, StartText, TRUE, RefBase + Len(chs) + 1, owner) >>

\* The chat list handleNewChat sets, from the `chats` of the calling closure
\* (owner: the user in whose session the caller was created).
newChatList(chs, newChatId, owner) ==
    [i \in 1..Len(chs) |-> [chs[i] EXCEPT !.isActive = FALSE, !.ref = RefBase + i]]
        \o << Chat(newChatId, NewChatTitle, StartText, TRUE, RefBase + Len(chs) + 1, owner) >>

handleNewChat ==
    /\ user # NoUser
    /\ nextId <= MaxChats
    /\ Commit(user, newChatList(chats, nextId, user), <<>>, nextId, isTyping, sends, lsChats, lsMsgs)
    /\ nextId' = nextId + 1
    /\ lastDelete' = NoDelete /\ UNCHANGED api

\* A selection that activates the chosen chat and deactivates no other.
selectChatList_additive(chs, chatId) ==
    [i \in 1..Len(chs) |->
        [chs[i] EXCEPT !.isActive = (chs[i].isActive \/ chs[i].id = chatId), !.ref = RefBase + i]]

\* chats.map(chat => ({ ...chat, isActive: chat.id === chatId }))
selectChatList(chs, chatId) ==
    [i \in 1..Len(chs) |-> [chs[i] EXCEPT !.isActive = (chs[i].id = chatId), !.ref = RefBase + i]]

handleSelectChat(chatId) ==
    /\ user # NoUser
    /\ \E i \in 1..Len(chats) : chats[i].id = chatId
    /\ Commit(user, selectChatList(chats, chatId), getMessages(lsMsgs, user, chatId),
              chatId, isTyping, sends, lsChats, lsMsgs)
    /\ UNCHANGED nextId /\ lastDelete' = NoDelete /\ UNCHANGED api

\* chats.filter(chat => chat.id !== chatId)
filterChats(chs, chatId) == SelectSeq(chs, LAMBDA ch : ch.id # chatId)

\* The deletion without the assignment to updatedChats[0].isActive.
setActiveInPlace_skipped(chs, r) == chs

\* updatedChats[0].isActive = true assigns to the object itself: every list
\* that holds the object sees it.
setActiveInPlace(chs, r) ==
    [i \in 1..Len(chs) |-> IF chs[i].ref = r THEN [chs[i] EXCEPT !.isActive = TRUE] ELSE chs[i]]

removeItem(lm, u, chatId) == [lm EXCEPT ![u][chatId] = <<>>]

handleDeleteChat(chatId) ==
    /\ user # NoUser
    /\ \E i \in 1..Len(chats) : chats[i].id = chatId
    /\ LET updatedChats == filterChats(chats, chatId)
           lm1 == removeItem(lsMsgs, user, chatId)
       IN  IF activeChat = chatId
           THEN IF Len(updatedChats) > 0
                THEN LET r == updatedChats[1].ref
                     IN  Commit(user, setActiveInPlace(updatedChats, r),
                                getMessages(lsMsgs, user, updatedChats[1].id),
                                updatedChats[1].id, isTyping,
                                [s \in SendIds |-> [sends[s] EXCEPT !.clChats = setActiveInPlace(@, r)]],
                                lsChats, lm1)
                ELSE Commit(user, updatedChats, <<>>, NoChat, isTyping, sends, lsChats, lm1)
           ELSE Commit(user, updatedChats, messages, activeChat, isTyping, sends, lsChats, lm1)
    /\ lastDelete' = [id |-> chatId, wasActive |-> activeChat = chatId]
    /\ UNCHANGED <<nextId, api>>

\* ------------------------------------------------------------ send message
\* The first send that has not been issued yet.
IsNextSend(s) == sends[s].pc = "idle" /\ \A t \in 1..(s - 1) : sends[t].pc # "idle"

\* content.slice(0, 30) + (content.length > 30 ? '...' : '')
chatTitle(content) == slice0(content, 30) \o (IF Len(content) > 30 THEN Ellipsis ELSE <<>>)

\* chats.map(chat => chat.id === activeChat ? { ...chat, lastMessage, timestamp } : chat)
withLastMessage(chs, act, lastMessage) ==
    [i \in 1..Len(chs) |->
        IF chs[i].id = act
        THEN [chs[i] EXCEPT !.lastMessage = lastMessage, !.ref = RefBase + i]
        ELSE chs[i]]

\* prev.map(chat => chat.id === activeChat && chat.title === 'New Chat'
\*                    ? { ...chat, title: ... } : chat)
withTitle(prev, act, content) ==
    [i \in 1..Len(prev) |->
        IF prev[i].id = act /\ prev[i].title = NewChatTitle
        THEN [prev[i] EXCEPT !.title = chatTitle(content), !.ref = RefBase + i]
        ELSE prev[i]]

\* The dispatch with the two image tests in the other order.
dispatchBranch_imageFirst(c) ==
    IF contentIsImage[c] THEN "enhanced"
    ELSE IF contentIsRaw[c] THEN "raw"
    ELSE "plain"

\* The order of the dispatch: raw image, then enhanced image, then plain text
\* (`if (isRawImageRequest) ... else { if (isImageRequest) ... else ... }`).
dispatchBranch(c) ==
    IF contentIsRaw[c] THEN "raw"
    ELSE IF contentIsImage[c] THEN "enhanced"
    ELSE "plain"

\* A join that waits for the text call alone.
joinState_allSettled(txt, img) ==
    IF txt = "fail" THEN "rejected"
    ELSE IF txt = "ok" THEN "fulfilled"
    ELSE "pending"

\* await Promise.all([text, image]) inside try/catch: "rejected" as soon as one
\* of the two has failed, "fulfilled" when both have succeeded.
joinState(txt, img) ==
    IF txt = "fail" \/ img = "fail" THEN "rejected"
    ELSE IF txt = "ok" /\ img = "ok" THEN "fulfilled"
    ELSE "pending"

\* A handler without the finally block.
finallyTyping_missing(typ) == typ

\* finally { setIsTyping(false) }: the indicator after the handler has returned,
\* typ being its value before the block.
finallyTyping(typ) == FALSE

\* A catch block that appends nothing.
catchError_swallowed(prev, s) == prev

\* The catch block: setMessages(prev => [...prev, errorMessage])
catchError(prev, s) == Append(prev, Message(s, "error"))

\* The closure is dropped from the record once the handler no longer reads it.
Finished(sd, branch, txt, img) ==
    [sd EXCEPT !.pc = "done", !.branch = branch, !.txt = txt, !.img = img,
               !.att = "none", !.clMessages = <<>>, !.clChats = <<>>]

Awaiting(sd, branch, txt, img) ==
    [sd EXCEPT !.pc = "calls", !.branch = branch, !.txt = txt, !.img = img,
               !.clMessages = <<>>, !.clChats = <<>>]

\* handleSendMessage from `const userMessage` on (lines 440-581), run by the
\* invocation whose record is sd, up to the first await of a network call.
\* generateImage builds a URL and settles within the same task.
Dispatch(s, sd) ==
    LET content == Contents[sd.c]
        userMessage == Message(s, "user")
        updatedMessages == Append(sd.clMessages, userMessage)
        updatedChats == withLastMessage(sd.clChats, sd.clActive, content)
        branch == dispatchBranch(sd.c)
        img == IF contentImageThrows[sd.c] THEN "fail" ELSE "ok"
    IN  IF branch = "raw"
        THEN \* no setIsTyping(true); `finally` sets it to false
             IF img = "fail"
             THEN Commit(user, updatedChats, catchError(updatedMessages, s), activeChat, finallyTyping(isTyping),
                         [sends EXCEPT ![s] = Finished(sd, branch, "none", img)], lsChats, lsMsgs)
             ELSE Commit(user, withTitle(updatedChats, sd.clActive, content),
                         Append(updatedMessages, Message(s, "raw")), activeChat, finallyTyping(isTyping),
                         [sends EXCEPT ![s] = Finished(sd, branch, "none", img)], lsChats, lsMsgs)
        ELSE IF branch = "enhanced"
             THEN IF joinState("pending", img) = "rejected"
                  THEN Commit(user, updatedChats, catchError(updatedMessages, s), activeChat, finallyTyping(TRUE),
                              [sends EXCEPT ![s] = Finished(sd, branch, "pending", img)],
                              lsChats, lsMsgs)
                  ELSE Commit(user, updatedChats, updatedMessages, activeChat, TRUE,
                              [sends EXCEPT ![s] = Awaiting(sd, branch, "pending", img)], lsChats, lsMsgs)
             ELSE Commit(user, updatedChats, updatedMessages, activeChat, TRUE,
                         [sends EXCEPT ![s] = Awaiting(sd, branch, "pending", "none")], lsChats, lsMsgs)

\* handleSendMessage(content, attachments) called in the current render.
\* att: "none" for no attachments argument (suggested prompts), "empty" for [],
\* "img" for an image file, whose preview is read by a FileReader.
handleSendMessage(s, c, att) ==
    LET sd == [IdleSend EXCEPT !.c = c, !.att = att, !.clActive = activeChat, !.owner = user,
                               !.noChat = (activeChat = NoChat)]
    IN  IF activeChat = NoChat
        THEN \* handleNewChat(); setTimeout(() => handleSendMessage(content, attachments), 100)
             /\ nextId <= MaxChats
             /\ Commit(user, newChatList(chats, nextId, user), <<>>, nextId, isTyping,
                       [sends EXCEPT ![s] = [sd EXCEPT !.pc = "timer", !.clChats = Stringify(chats),
                                                       !.created = 1]],
                       lsChats, lsMsgs)
             /\ nextId' = nextId + 1
             /\ lastDelete' = NoDelete /\ UNCHANGED api
        ELSE IF att = "img"
             THEN \* await processAttachedFiles(attachments): the FileReader is a later task
                  /\ sends' = [sends EXCEPT ![s] = [sd EXCEPT !.pc = "files", !.clMessages = messages,
                                                              !.clChats = chats]]
                  /\ UNCHANGED <<user, chats, messages, activeChat, isTyping, lsChats, lsMsgs, nextId>>
                  /\ lastDelete' = NoDelete /\ UNCHANGED api
             ELSE /\ Dispatch(s, [sd EXCEPT !.clMessages = messages, !.clChats = chats])
                  /\ UNCHANGED nextId /\ lastDelete' = NoDelete /\ UNCHANGED api

\* ChatInput.handleSubmit: disabled while isTyping; attachments is an array.
SendFromInput(s, c, att) ==
    /\ user # NoUser
    /\ IsNextSend(s)
    /\ ~isTyping
    /\ att \in {"empty", "img"}
    /\ handleSendMessage(s, c, att)

\* ChatInterface: the suggested prompts are shown while the log is empty and
\* call onSendMessage(prompt.text).
SendFromPrompt(s, c) ==
    /\ user # NoUser
    /\ IsNextSend(s)
    /\ Len(messages) = 0
    /\ c \in suggestedPrompts
    /\ handleSendMessage(s, c, "none")

\* The setTimeout callback: handleSendMessage of the same closure runs again,
\* and that closure's activeChat is still ''.
TimerFire(s) ==
    /\ sends[s].pc = "timer"
    /\ nextId <= MaxChats
    /\ Commit(user, newChatList(sends[s].clChats, nextId, sends[s].owner), <<>>, nextId, isTyping,
              [sends EXCEPT ![s].created = @ + 1, ![s].retries = @ + 1], lsChats, lsMsgs)
    /\ nextId' = nextId + 1
    /\ lastDelete' = NoDelete /\ UNCHANGED api

\* processAttachedFiles resolves: the handler continues with its closure.
FilesDone(s) ==
    /\ sends[s].pc = "files"
    /\ Dispatch(s, sends[s])
    /\ UNCHANGED nextId /\ lastDelete' = NoDelete /\ UNCHANGED api

\* The text-generation call settles and the handler that awaits it continues
\* (lines 527-566 on success, the catch block on failure, then finally).
TextSettle(s, ok) ==
    /\ sends[s].pc = "calls"
    /\ LET sd == sends[s]
           content == Contents[sd.c]
           txt == IF ok THEN "ok" ELSE "fail"
           outcome == IF sd.branch = "enhanced" THEN joinState(txt, sd.img)
                      ELSE IF ok THEN "fulfilled" ELSE "rejected"
       IN  IF outcome = "fulfilled"
           THEN Commit(user, withTitle(chats, sd.clActive, content),
                       Append(messages, Message(s, IF sd.branch = "enhanced" THEN "image" ELSE "text")),
                       activeChat, finallyTyping(isTyping),
                       [sends EXCEPT ![s] = Finished(sd, sd.branch, txt, sd.img)], lsChats, lsMsgs)
           ELSE Commit(user, chats, catchError(messages, s), activeChat, finallyTyping(isTyping),
                       [sends EXCEPT ![s] = Finished(sd, sd.branch, txt, sd.img)], lsChats, lsMsgs)
    /\ UNCHANGED nextId /\ lastDelete' = NoDelete /\ UNCHANGED api

\* The text-generation call of a turn whose Promise.all was already rejected
\* by generateImage settles: no continuation is left to run.
TextSettleLate(s, ok) ==
    /\ sends[s].pc = "done"
    /\ sends[s].txt = "pending"
    /\ sends' = [sends EXCEPT ![s].txt = IF ok THEN "ok" ELSE "fail"]
    /\ UNCHANGED <<user, chats, messages, activeChat, isTyping, lsChats, lsMsgs, nextId>>
    /\ lastDelete' = NoDelete /\ UNCHANGED api

\* Two users, sessions and one send: every interleaving of sign-in, sign-out,
\* the chat handlers and the steps of a send.
Next ==
    \/ \E u \in Users : SignIn(u)
    \/ SignOut
    \/ handleNewChat
    \/ \E id \in ChatIds : handleSelectChat(id)
    \/ \E id \in ChatIds : handleDeleteChat(id)
    \/ \E s \in 1..SessionSends, c \in ContentIds, att \in {"empty", "img"} : SendFromInput(s, c, att)
    \/ \E s \in 1..SessionSends, c \in ContentIds : SendFromPrompt(s, c)
    \/ \E s \in SendIds : TimerFire(s)
    \/ \E s \in SendIds : FilesDone(s)
    \/ \E s \in SendIds, ok \in BOOLEAN : TextSettle(s, ok)
    \/ \E s \in SendIds, ok \in BOOLEAN : TextSettleLate(s, ok)

Spec == Init /\ [][Next]_vars

\* One user and MaxSends sends, which may overlap, over SendsChats chats.
NextSends ==
    \/ SignIn("u1")
    \/ SignOut
    \/ nextId <= SendsChats /\ handleNewChat
    \/ \E id \in ChatIds : handleSelectChat(id)
    \/ \E id \in ChatIds : handleDeleteChat(id)
    \/ \E s \in SendIds, c \in ContentIds, att \in {"empty", "img"} :
            (activeChat = NoChat => nextId <= SendsChats) /\ SendFromInput(s, c, att)
    \/ \E s \in SendIds, c \in ContentIds :
            (activeChat = NoChat => nextId <= SendsChats) /\ SendFromPrompt(s, c)
    \/ \E s \in SendIds : nextId <= SendsChats /\ TimerFire(s)
    \/ \E s \in SendIds : FilesDone(s)
    \/ \E s \in SendIds, ok \in BOOLEAN : TextSettle(s, ok)
    \/ \E s \in SendIds, ok \in BOOLEAN : TextSettleLate(s, ok)

SpecSends == Init /\ [][NextSends]_vars

\* ============================================================ service layer
\* src/src/services/pollinationApi.ts: the functions of PollinationAPI, as
\* operators on texts, and the calls that apply them.

isSpace(ch) == ch \in {" ", "\t", "\n"}

\* The text from index i on.
from(t, i) == SubSeq(t, i, Len(t))

\* The text without its leading white space (a greedy \s* at the start).
skipSpaces(t) ==
    LET k == IF \E i \in 1..Len(t) : ~isSpace(t[i])
             THEN CHOOSE i \in 1..Len(t) : ~isSpace(t[i]) /\ \A j \in 1..(i - 1) : isSpace(t[j])
             ELSE Len(t) + 1
    IN  from(t, k)

\* String.prototype.trim
trim(t) ==
    LET u == skipSpaces(t)
        k == IF \E i \in 1..Len(u) : ~isSpace(u[i])
             THEN CHOOSE i \in 1..Len(u) : ~isSpace(u[i]) /\ \A j \in (i + 1)..Len(u) : isSpace(u[j])
             ELSE 0
    IN  SubSeq(u, 1, k)

\* The text starts with the lower-case token kw, whatever the case (flag i).
startsWithCI(t, kw) == Len(t) >= Len(kw) /\ toLowerCase(SubSeq(t, 1, Len(kw))) = kw

\* replace(/^kw\s*/i, '')
stripLeading(t, kw) == IF startsWithCI(t, kw) THEN skipSpaces(from(t, Len(kw) + 1)) ELSE t

\* replace(/kw\s*/i, ''): the leftmost occurrence only (no flag g).
stripFirst(t, kw) ==
    IF \E i \in 1..Len(t) : startsWithCI(from(t, i), kw)
    THEN LET i == CHOOSE i \in 1..Len(t) :
                      /\ startsWithCI(from(t, i), kw)
                      /\ \A j \in 1..(i - 1) : ~startsWithCI(from(t, j), kw)
         IN  SubSeq(t, 1, i - 1) \o skipSpaces(from(t, i + Len(kw)))
    ELSE t

noEnhancementPhrases ==
    << <<"e", "x", "a", "c", "t", " ", "p", "r", "o", "m", "p", "t">>,
       <<"n", "o", " ", "e", "n", "h", "a", "n", "c", "e", "m", "e", "n", "t">>,
       <<"r", "a", "w", " ", "p", "r", "o", "m", "p", "t">> >>

\* replace(/\s*(exact prompt|no enhancement|raw prompt)\s*/i, ''): the
\* leftmost phrase with the white space around it.
stripPhrase(t) ==
    LET at(i) == \E k \in 1..Len(noEnhancementPhrases) : startsWithCI(from(t, i), noEnhancementPhrases[k])
    IN  IF \E i \in 1..Len(t) : at(i)
        THEN LET q == CHOOSE i \in 1..Len(t) : at(i) /\ \A j \in 1..(i - 1) : ~at(j)
                 ph == noEnhancementPhrases[CHOOSE k \in 1..Len(noEnhancementPhrases) :
                                                startsWithCI(from(t, q), noEnhancementPhrases[k])]
                 p == CHOOSE i \in 1..q : (\A j \in i..(q - 1) : isSpace(t[j]))
                                          /\ (i = 1 \/ ~isSpace(t[i - 1]))
             IN  SubSeq(t, 1, p - 1) \o skipSpaces(from(t, q + Len(ph)))
        ELSE t

requestVerbs ==
    << <<"g", "e", "n", "e", "r", "a", "t", "e">>,
       <<"c", "r", "e", "a", "t", "e">>,
       <<"d", "r", "a", "w">>,
       <<"p", "a", "i", "n", "t">>,
       <<"s", "k", "e", "t", "c", "h">>,
       <<"s", "h", "o", "w", " ", "m", "e">> >>
requestNouns ==
    << <<"i", "m", "a", "g", "e">>,
       <<"p", "i", "c", "t", "u", "r", "e">>,
       <<"p", "h", "o", "t", "o">>,
       <<"i", "l", "l", "u", "s", "t", "r", "a", "t", "i", "o", "n">> >>

\* A match of (image|picture|photo|illustration)\s*(of\s*)? at the start of
\* the text: whether there is one, and the text after it.
afterNoun(t) ==
    IF \E k \in 1..Len(requestNouns) : startsWithCI(t, requestNouns[k])
    THEN LET n == requestNouns[CHOOSE k \in 1..Len(requestNouns) : startsWithCI(t, requestNouns[k])]
             r == skipSpaces(from(t, Len(n) + 1))
         IN  [found |-> TRUE, rest |-> stripLeading(r, <<"o", "f">>)]
    ELSE [found |-> FALSE, rest |-> t]

\* replace(/^(generate|create|draw|paint|sketch|show me)\s*(an?\s*)?
\*          (image|picture|photo|illustration)\s*(of\s*)?/i, '')
stripRequest(t) ==
    IF \E k \in 1..Len(requestVerbs) : startsWithCI(t, requestVerbs[k])
    THEN LET v == requestVerbs[CHOOSE k \in 1..Len(requestVerbs) : startsWithCI(t, requestVerbs[k])]
             r == skipSpaces(from(t, Len(v) + 1))
             withAn == IF startsWithCI(r, <<"a", "n">>) THEN afterNoun(skipSpaces(from(r, 3)))
                       ELSE [found |-> FALSE, rest |-> t]
             withA == IF startsWithCI(r, <<"a">>) THEN afterNoun(skipSpaces(from(r, 2)))
                      ELSE [found |-> FALSE, rest |-> t]
             bare == afterNoun(r)
         IN  IF withAn.found THEN withAn.rest
             ELSE IF withA.found THEN withA.rest
             ELSE IF bare.found THEN bare.rest
             ELSE t
    ELSE t

\* pollinationAPI.cleanRawImagePrompt
cleanRawImagePrompt(message) ==
    trim(stripRequest(stripPhrase(stripFirst(stripLeading(stripLeading(message,
        <<"/", "i", "m", "a", "g", "i", "n", "e">>), <<"/", "r", "a", "w">>), <<"-", "-", "r", "a", "w">>))))

\* ---------------------------------------------------------- generateImage
Digits == <<"0", "1", "2", "3", "4", "5", "6", "7", "8", "9">>
UnreservedMarks == {"-", "_", ".", "!", "~", "*", "'", "(", ")"}

\* The escape of the ASCII characters encodeURIComponent does not keep.
PercentCode ==
    [ch \in {" ", "\"", "#", "$", "%", "&", "+", ",", "/", ":", ";", "=", "?", "@", "[", "]"} |->
        CASE ch = " " -> <<"%", "2", "0">>
          [] ch = "\"" -> <<"%", "2", "2">>
          [] ch = "#" -> <<"%", "2", "3">>
          [] ch = "$" -> <<"%", "2", "4">>
          [] ch = "%" -> <<"%", "2", "5">>
          [] ch = "&" -> <<"%", "2", "6">>
          [] ch = "+" -> <<"%", "2", "B">>
          [] ch = "," -> <<"%", "2", "C">>
          [] ch = "/" -> <<"%", "2", "F">>
          [] ch = ":" -> <<"%", "3", "A">>
          [] ch = ";" -> <<"%", "3", "B">>
          [] ch = "=" -> <<"%", "3", "D">>
          [] ch = "?" -> <<"%", "3", "F">>
          [] ch = "@" -> <<"%", "4", "0">>
          [] ch = "[" -> <<"%", "5", "B">>
          [] ch = "]" -> <<"%", "5", "D">>]

RECURSIVE encodeFrom(_, _)
encodeFrom(t, i) ==
    IF i > Len(t) THEN <<>>
    ELSE (IF t[i] \in Range(UpperAlpha) \cup Range(LowerAlpha) \cup Range(Digits) \cup UnreservedMarks
          THEN <<t[i]>>
          ELSE PercentCode[t[i]]) \o encodeFrom(t, i + 1)

\* encodeURIComponent of a text without a lone surrogate.
encodeURIComponent(t) == encodeFrom(t, 1)

RECURSIVE join(_, _)
\* Array.prototype.join
join(list, sep) ==
    IF Len(list) = 0 THEN <<>>
    ELSE IF Len(list) = 1 THEN list[1]
    ELSE list[1] \o sep \o join(Tail(list), sep)

enhancements ==
    << <<"h", "i", "g", "h", "l", "y", " ", "d", "e", "t", "a", "i", "l", "e", "d">>,
       <<"b", "e", "a", "u", "t", "i", "f", "u", "l">>,
       <<"p", "r", "o", "f", "e", "s", "s", "i", "o", "n", "a", "l", " ", "q", "u", "a", "l", "i", "t", "y">>,
       <<"v", "i", "b", "r", "a", "n", "t", " ", "c", "o", "l", "o", "r", "s">>,
       <<"s", "h", "a", "r", "p", " ", "f", "o", "c", "u", "s">> >>

\* An enhancer whose limit includes the length 20.
enhanceImagePrompt_atMost(prompt) ==
    IF Len(prompt) <= 20 THEN prompt \o <<",", " ">> \o join(enhancements, <<",", " ">>) ELSE prompt

\* pollinationAPI.enhanceImagePrompt
enhanceImagePrompt(prompt) ==
    IF Len(prompt) < 20 THEN prompt \o <<",", " ">> \o join(enhancements, <<",", " ">>) ELSE prompt

\* The keyword lists of inferImageModel, in the order of its tests.
modelKeywords ==
    << [model |-> <<"f", "l", "u", "x", "-", "a", "n", "i", "m", "e">>,
        words |-> << <<"a", "n", "i", "m", "e">>, <<"m", "a", "n", "g", "a">>, <<"c", "a", "r", "t", "o", "o", "n">> >>],
       [model |-> <<"f", "l", "u", "x", "-", "3", "d">>,
        words |-> << <<"3", "d">>, <<"r", "e", "n", "d", "e", "r">>, <<"s", "c", "u", "l", "p", "t", "u", "r", "e">> >>],
       [model |-> <<"a", "n", "y", "-", "d", "a", "r", "k">>,
        words |-> << <<"d", "a", "r", "k">>, <<"g", "o", "t", "h", "i", "c">>, <<"h", "o", "r", "r", "o", "r">> >>],
       [model |-> <<"f", "l", "u", "x", "-", "r", "e", "a", "l", "i", "s", "m">>,
        words |-> << <<"r", "e", "a", "l", "i", "s", "t", "i", "c">>, <<"p", "h", "o", "t", "o">>, <<"p", "o", "r", "t", "r", "a", "i", "t">> >>],
       [model |-> <<"t", "u", "r", "b", "o">>,
        words |-> << <<"q", "u", "i", "c", "k">>, <<"f", "a", "s", "t">>, <<"s", "i", "m", "p", "l", "e">> >>] >>

defaultImageModel == <<"f", "l", "u", "x">>

\* pollinationAPI.inferImageModel without a preferred model
inferImageModel(prompt) ==
    LET lowerPrompt == toLowerCase(prompt)
        hit(k) == \E w \in 1..Len(modelKeywords[k].words) : includes(lowerPrompt, modelKeywords[k].words[w])
    IN  IF \E k \in 1..Len(modelKeywords) : hit(k)
        THEN modelKeywords[CHOOSE k \in 1..Len(modelKeywords) : hit(k) /\ \A j \in 1..(k - 1) : ~hit(j)].model
        ELSE defaultImageModel

baseImageUrl == <<"h", "t", "t", "p", "s", ":", "/", "/", "i", "m", "a", "g", "e", ".", "p", "o", "l", "l", "i", "n", "a", "t", "i", "o", "n", "s", ".", "a", "i", "/", "p", "r", "o", "m", "p", "t", "/">>
\* URLSearchParams of width 1024, height 1024, model, nologo true, joined to the URL.
imageQuery(model) ==
    <<"?", "w", "i", "d", "t", "h", "=", "1", "0", "2", "4", "&", "h", "e", "i", "g", "h", "t", "=", "1", "0", "2", "4", "&", "m", "o", "d", "e", "l", "=">> \o model \o <<"&", "n", "o", "l", "o", "g", "o", "=", "t", "r", "u", "e">>

\* The values of options.enhancePrompt: true, false, or no such option.
EnhanceOptions == {"true", "false", "undefined"}

\* A generateImage that enhances whatever the option says.
generateImage_alwaysEnhance(prompt, enhancePrompt) ==
    LET finalPrompt == enhanceImagePrompt(prompt)
    IN  IF LoneSurrogate \in Range(finalPrompt)
        THEN [ok |-> FALSE, error |-> "Failed to generate image"]
        ELSE [ok |-> TRUE,
              url |-> baseImageUrl \o encodeURIComponent(finalPrompt) \o imageQuery(inferImageModel(finalPrompt))]

\* pollinationAPI.generateImage(prompt, { width: 1024, height: 1024, nologo:
\* true, enhancePrompt }): the URL, or the error thrown.
generateImage(prompt, enhancePrompt) ==
    LET finalPrompt == IF enhancePrompt # "false" THEN enhanceImagePrompt(prompt) ELSE prompt
    IN  IF LoneSurrogate \in Range(finalPrompt)
        THEN [ok |-> FALSE, error |-> "Failed to generate image"]
        ELSE [ok |-> TRUE,
              url |-> baseImageUrl \o encodeURIComponent(finalPrompt) \o imageQuery(inferImageModel(finalPrompt))]

\* The markdown message of a raw-image turn (handleSendMessage, markdownContent).
markdownContent(imagePrompt, imageUrl) ==
    <<"!", "[">> \o imagePrompt \o <<"]", "(">> \o imageUrl \o <<")", "\n", "\n">>
        \o <<"*", "*", "R", "a", "w", " ", "I", "m", "a", "g", "e", " ", "G", "e", "n", "e", "r", "a", "t", "e", "d", "*", "*", " ", " ", "\n", "P", "r", "o", "m", "p", "t", ":", " ", "\"">>
        \o imagePrompt
        \o <<"\"", " ", " ", "\n", "S", "i", "z", "e", ":", " ", "1", "0", "2", "4", "x", "1", "0", "2", "4", "p", "x", " ", " ", "\n", "E", "n", "h", "a", "n", "c", "e", "m", "e", "n", "t", ":", " ", "D", "i", "s", "a", "b", "l", "e", "d">>

\* The raw-image turn of each text of Contents, computed once: the cleaned
\* prompt, the result of generateImage with enhancement disabled, the message.
rawPrompt == [c \in ContentIds |-> cleanRawImagePrompt(Contents[c])]
rawImage == [c \in ContentIds |-> generateImage(rawPrompt[c], "false")]
rawMarkdown ==
    [c \in ContentIds |-> IF rawImage[c].ok THEN markdownContent(rawPrompt[c], rawImage[c].url) ELSE <<>>]

\* ------------------------------------------------ buildConversationHistory
\* An absent value (undefined).  The function tests these values for truth
\* only, and the empty text and the empty array are as false as undefined.
Undefined == <<>>

\* String.prototype.startsWith
startsWith(t, kw) == Len(t) >= Len(kw) /\ SubSeq(t, 1, Len(kw)) = kw

RECURSIVE decimalText(_)
\* Number.prototype.toString of a natural number
decimalText(n) == IF n < 10 THEN <<Digits[n + 1]>> ELSE decimalText(n \div 10) \o <<Digits[(n % 10) + 1]>>

\* (size / 1024).toFixed(1)
sizeKB(size) ==
    LET tenths == (size * 10 + 512) \div 1024
    IN  decimalText(tenths \div 10) \o <<".">> \o decimalText(tenths % 10)

\* An AttachedFile; url is Undefined when no URL could be made.
AttachedFile(name, size, type, url) == [name |-> name, size |-> size, type |-> type, url |-> url]

\* A MessageType of the log as buildConversationHistory reads it.
LogMessage(content, isUser, imageUrl, attachedFiles) ==
    [content |-> content, isUser |-> isUser, imageUrl |-> imageUrl, attachedFiles |-> attachedFiles]

\* The system message; of its fixed text the first sentence is kept.
systemMessage(currentModel) ==
    [role |-> "system",
     content |-> <<"Y", "o", "u", " ", "a", "r", "e", " ", "a", " ", "h", "e", "l", "p", "f", "u", "l", " ", "A", "I", " ", "a", "s", "s", "i", "s", "t", "a", "n", "t", " ", "p", "o", "w", "e", "r", "e", "d", " ", "b", "y", " ", "P", "o", "l", "l", "i", "n", "a", "t", "i", "o", "n", " ", "A", "I", " ", "u", "s", "i", "n", "g", " ", "t", "h", "e", " ">>
                     \o currentModel \o <<" ", "m", "o", "d", "e", "l", ".">>]

imagePrefix == <<"i", "m", "a", "g", "e", "/">>
generatedImageNote == <<"[", "G", "e", "n", "e", "r", "a", "t", "e", "d", " ", "a", "n", " ", "i", "m", "a", "g", "e", " ", "b", "a", "s", "e", "d", " ", "o", "n", " ", "u", "s", "e", "r", " ", "r", "e", "q", "u", "e", "s", "t", "]">>

RECURSIVE imageParts(_)
\* attachedFiles.forEach: one image_url part for each image file with a url
imageParts(files) ==
    IF Len(files) = 0 THEN <<>>
    ELSE (IF startsWith(files[1].type, imagePrefix) /\ files[1].url # Undefined
          THEN <<[type |-> "image_url", url |-> files[1].url]>>
          ELSE <<>>) \o imageParts(Tail(files))

\* `- ${file.name} (${file.type}, ${(file.size / 1024).toFixed(1)}KB)`
fileDescription(file) ==
    <<"-", " ">> \o file.name \o <<" ", "(">> \o file.type \o <<",", " ">> \o sizeKB(file.size)
        \o <<"K", "B", ")">>

\* The content array of a user message with attached files.
contentArray(text, files) ==
    LET nonImageFiles == SelectSeq(files, LAMBDA f : ~startsWith(f.type, imagePrefix))
        fileDescriptions == join([i \in 1..Len(nonImageFiles) |-> fileDescription(nonImageFiles[i])], <<"\n">>)
    IN  (IF Len(text) > 0 THEN <<[type |-> "text", text |-> text]>> ELSE <<>>)
            \o imageParts(files)
            \o (IF Len(nonImageFiles) > 0
                THEN <<[type |-> "text",
                        text |-> <<"[", "U", "s", "e", "r", " ", "a", "l", "s", "o", " ", "a", "t", "t", "a", "c", "h", "e", "d", " ">> \o decimalText(Len(nonImageFiles))
                                     \o <<" ", "n", "o", "n", "-", "i", "m", "a", "g", "e", " ", "f", "i", "l", "e", "(", "s", ")", ":", "\n">> \o fileDescriptions \o <<"]">>]>>
                ELSE <<>>)

\* The entries one message of the log contributes: one, or none for an
\* assistant message with neither content nor image.
historyEntries(msg) ==
    IF msg.isUser
    THEN IF Len(msg.attachedFiles) > 0
         THEN <<[role |-> "user", content |-> contentArray(msg.content, msg.attachedFiles)]>>
         ELSE <<[role |-> "user", content |-> msg.content]>>
    ELSE IF Len(msg.content) > 0 /\ msg.imageUrl = Undefined
         THEN <<[role |-> "assistant", content |-> msg.content]>>
         ELSE IF msg.imageUrl # Undefined
              THEN <<[role |-> "assistant", content |-> generatedImageNote]>>
              ELSE <<>>

HistoryLimit == 10

\* The first messages of the log instead of the last.
recentMessages_first(currentMessages) ==
    SubSeq(currentMessages, 1, IF Len(currentMessages) < HistoryLimit THEN Len(currentMessages) ELSE HistoryLimit)

\* currentMessages.slice(-10)
recentMessages(currentMessages) ==
    SubSeq(currentMessages,
           IF Len(currentMessages) > HistoryLimit THEN Len(currentMessages) - HistoryLimit + 1 ELSE 1,
           Len(currentMessages))

RECURSIVE historyOf(_)
historyOf(msgs) == IF Len(msgs) = 0 THEN <<>> ELSE historyEntries(msgs[1]) \o historyOf(Tail(msgs))

\* App.buildConversationHistory(currentMessages, newUserMessage, attachedFiles)
buildConversationHistory(currentModel, currentMessages, newUserMessage, attachedFiles) ==
    <<systemMessage(currentModel)>>
        \o historyOf(recentMessages(currentMessages))
        \o (IF Len(attachedFiles) > 0
            THEN <<[role |-> "user", content |-> contentArray(newUserMessage, attachedFiles)]>>
            ELSE <<[role |-> "user", content |-> newUserMessage]>>)

MaxLog == 15   \* longest log given to buildConversationHistory

\* The text of the i-th message of a log.
msgText(i) == <<"m", "s", "g", " ">> \o decimalText(i)

pngFile == AttachedFile(<<"c", "a", "t", ".", "p", "n", "g">>, 2048, <<"i", "m", "a", "g", "e", "/", "p", "n", "g">>, <<"d", "a", "t", "a", ":", "i", "m", "a", "g", "e", "/", "p", "n", "g", ";", "b", "a", "s", "e", "6", "4", ",", "A", "A", "A", "A">>)
pdfFile == AttachedFile(<<"n", "o", "t", "e", "s", ".", "p", "d", "f">>, 1536, <<"a", "p", "p", "l", "i", "c", "a", "t", "i", "o", "n", "/", "p", "d", "f">>, <<"b", "l", "o", "b", ":", "1">>)

\* The kinds of message handleSendMessage appends: a user message without
\* files, a generated reply, a user message with an image, a reply with an
\* image, a user message that is a file and no text.
LogKinds == <<"user", "text", "userImage", "image", "userFile">>

logMessage(i, kind) ==
    CASE kind = "user" -> LogMessage(msgText(i), TRUE, Undefined, <<>>)
      [] kind = "text" -> LogMessage(msgText(i), FALSE, Undefined, Undefined)
      [] kind = "userImage" -> LogMessage(msgText(i), TRUE, Undefined, <<pngFile>>)
      [] kind = "image" -> LogMessage(msgText(i), FALSE, <<"h", "t", "t", "p", "s", ":", "/", "/", "i", "m", "a", "g", "e", ".", "p", "o", "l", "l", "i", "n", "a", "t", "i", "o", "n", "s", ".", "a", "i", "/", "p", "r", "o", "m", "p", "t", "/", "x">>, Undefined)
      [] kind = "userFile" -> LogMessage(<<>>, TRUE, Undefined, <<pdfFile>>)
      [] kind = "raw" -> LogMessage(rawMarkdown[3], FALSE, Undefined, Undefined)

\* The log of n messages whose kinds go through LogKinds from position off.
logOf(n, off) == [i \in 1..n |-> logMessage(i, LogKinds[((i + off) % Len(LogKinds)) + 1])]

MaxTurns == 6   \* most turns of a log made of whole turns

\* The replies a turn appends after the user's message: generated text, text
\* with an image (enhanced-image turn), the markdown of a raw-image turn.
TurnReplies == <<"text", "image", "raw">>

\* The kinds of the messages of logs made of whole turns: every log of at most
\* two turns, and the logs of up to MaxTurns turns going through TurnReplies.
TurnKinds ==
    {<<>>}
        \cup {<<"user", r>> : r \in Range(TurnReplies)}
        \cup {<<"user", r1, "user", r2>> : r1 \in Range(TurnReplies), r2 \in Range(TurnReplies)}
        \cup {[i \in 1..(2 * n) |-> IF i % 2 = 1 THEN "user" ELSE TurnReplies[((i \div 2) % 3) + 1]] :
                  n \in 3..MaxTurns}

\* The kinds of the messages of logOf(n, off).
kindsOf(n, off) == [i \in 1..n |-> LogKinds[((i + off) % Len(LogKinds)) + 1]]

\* The log whose messages have the given kinds.
logFromKinds(kinds) == [i \in 1..Len(kinds) |-> logMessage(i, kinds[i])]

CallBuildConversationHistory ==
    /\ api = NoCall
    /\ \E kinds \in {kindsOf(n, off) : n \in 0..MaxLog, off \in 0..(Len(LogKinds) - 1)} \cup TurnKinds,
          files \in {<<>>, <<pngFile, pdfFile>>} :
           LET log == logFromKinds(kinds)
               n == Len(kinds)
           IN  api' = [op |-> "buildConversationHistory", kinds |-> kinds, log |-> log,
                       newUserMessage |-> msgText(n + 1), attachedFiles |-> files,
                       result |-> buildConversationHistory(<<"o", "p", "e", "n", "a", "i">>, log, msgText(n + 1), files)]
    /\ UNCHANGED chatVars

\* ------------------------------------------------------- calls of the service
MaxPromptLen == 22   \* longest prompt given to the enhancer

PromptText == <<"a", " ", "r", "e", "d", " ", "a", "p", "p", "l", "e", " ", "o", "n", " ", "a", " ", "w", "o", "o", "d", "e", "n", " ", "t", "a", "b", "l", "e">>

\* Prompts of every length up to MaxPromptLen, and one that cannot be encoded.
Prompts == {SubSeq(PromptText, 1, n) : n \in 0..MaxPromptLen} \cup {<<"x", LoneSurrogate>>}

Directives == {<<"/", "i", "m", "a", "g", "i", "n", "e">>, <<"/", "r", "a", "w">>, <<"-", "-", "r", "a", "w">>}

\* The directive tokens in every order: one, two or all three of them.
DirectiveOrders ==
    {<<a>> : a \in Directives}
        \cup {d \in [1..2 -> Directives] : d[1] # d[2]}
        \cup {d \in [1..3 -> Directives] : Cardinality(Range(d)) = 3}

\* Bodies without a directive token.
Bodies == {<<"a", " ", "r", "e", "d", " ", "a", "p", "p", "l", "e">>, <<"m", "i", "n", "i", "m", "a", "l", "i", "s", "t", " ", "l", "o", "g", "o", " ", "d", "e", "s", "i", "g", "n">>, <<" ", "a", " ", "c", "a", "t", " ">>}

CallEnhanceImagePrompt ==
    /\ api = NoCall
    /\ \E prompt \in Prompts :
           api' = [op |-> "enhanceImagePrompt", prompt |-> prompt, result |-> enhanceImagePrompt(prompt)]
    /\ UNCHANGED chatVars

CallGenerateImage ==
    /\ api = NoCall
    /\ \E prompt \in Prompts, e \in EnhanceOptions :
           api' = [op |-> "generateImage", prompt |-> prompt, enhancePrompt |-> e,
                   result |-> generateImage(prompt, e)]
    /\ UNCHANGED chatVars

CallCleanRawImagePrompt ==
    /\ api = NoCall
    /\ \E d \in DirectiveOrders, body \in Bodies :
           LET message == join(d \o <<body>>, <<" ">>)
           IN  api' = [op |-> "cleanRawImagePrompt", directives |-> d, body |-> body,
                       message |-> message, result |-> cleanRawImagePrompt(message)]
    /\ UNCHANGED chatVars

\* ---------------------------------------------------------- text generation
baseTextUrl == <<"h", "t", "t", "p", "s", ":", "/", "/", "t", "e", "x", "t", ".", "p", "o", "l", "l", "i", "n", "a", "t", "i", "o", "n", "s", ".", "a", "i">>
defaultTextModel == <<"o", "p", "e", "n", "a", "i">>
searchgpt == <<"s", "e", "a", "r", "c", "h", "g", "p", "t">>
defaultSystem == <<"Y", "o", "u", " ", "a", "r", "e", " ", "a", " ", "h", "e", "l", "p", "f", "u", "l", " ", "A", "I", " ", "a", "s", "s", "i", "s", "t", "a", "n", "t", " ", "p", "o", "w", "e", "r", "e", "d", " ", "b", "y", " ", "P", "o", "l", "l", "i", "n", "a", "t", "i", "o", "n", " ", "A", "I", ".", " ", "P", "r", "o", "v", "i", "d", "e", " ", "c", "l", "e", "a", "r", ",", " ", "i", "n", "f", "o", "r", "m", "a", "t", "i", "v", "e", ",", " ", "a", "n", "d", " ", "e", "n", "g", "a", "g", "i", "n", "g", " ", "r", "e", "s", "p", "o", "n", "s", "e", "s", ".">>
fallbackText == <<"S", "o", "r", "r", "y", ",", " ", "I", " ", "c", "o", "u", "l", "d", " ", "n", "o", "t", " ", "g", "e", "n", "e", "r", "a", "t", "e", " ", "a", " ", "r", "e", "s", "p", "o", "n", "s", "e", ".">>

\* What fetch gives back.  NetworkFailure: the promise rejects.  Otherwise a
\* Response: ok (status 200..299), the content-type header (Undefined when
\* there is none) and the body.
NetworkFailure == [failed |-> TRUE]
Response(ok, contentType, body) == [failed |-> FALSE, ok |-> ok, contentType |-> contentType, body |-> body]

\* Bodies.  A JSON object is kept as the three values the code reads from it:
\* data.choices?.[0]?.message?.content, data.content and data.response, each
\* Undefined when the chain ends in undefined (or in '', equally falsy).
JsonObject(choicesContent, content, response) ==
    [kind |-> "object", choicesContent |-> choicesContent, content |-> content, response |-> response]
\* The JSON text null: response.json() resolves with null.
JsonNull == [kind |-> "null"]
\* A body that is not JSON: response.json() rejects, response.text() gives the text.
PlainBody(text) == [kind |-> "text", text |-> text]

\* "name":"value"
jsonField(name, value) == <<"\"">> \o name \o <<"\"", ":", "\"">> \o value \o <<"\"">>

\* The text of a body, as response.text() gives it.
bodyText(body) ==
    IF body.kind = "text" THEN body.text
    ELSE IF body.kind = "null" THEN <<"n", "u", "l", "l">>
    ELSE LET choices == IF body.choicesContent = Undefined THEN <<>>
                        ELSE << <<"\"", "c", "h", "o", "i", "c", "e", "s", "\"", ":", "[", "{", "\"", "m", "e", "s", "s", "a", "g", "e", "\"", ":", "{">> \o jsonField(<<"c", "o", "n", "t", "e", "n", "t">>, body.choicesContent) \o <<"}", "}", "]">> >>
             content == IF body.content = Undefined THEN <<>> ELSE <<jsonField(<<"c", "o", "n", "t", "e", "n", "t">>, body.content)>>
             response == IF body.response = Undefined THEN <<>> ELSE <<jsonField(<<"r", "e", "s", "p", "o", "n", "s", "e">>, body.response)>>
         IN  <<"{">> \o join(choices \o content \o response, <<",">>) \o <<"}">>

\* The result of an async call: the requests it issued and its settlement.
Resolved(requests, value) == [requests |-> requests, ok |-> TRUE, value |-> value]
Rejected(requests, error) == [requests |-> requests, ok |-> FALSE, error |-> error]

GetRequest(url) == [method |-> "GET", url |-> url, messages |-> <<>>]
PostRequest(url, msgs) == [method |-> "POST", url |-> url, messages |-> msgs]

\* value || 'Sorry, I could not generate a response.'
orFallback(value) == IF value # Undefined THEN value ELSE fallbackText

\* The JSON fields in the order content, response, choices.
searchGPTText_contentFirst(data) ==
    IF data.content # Undefined THEN data.content
    ELSE IF data.response # Undefined THEN data.response
    ELSE data.choicesContent
\* data.choices?.[0]?.message?.content || data.content || data.response
searchGPTText(data) ==
    IF data.choicesContent # Undefined THEN data.choicesContent
    ELSE IF data.content # Undefined THEN data.content
    ELSE data.response

\* A test of the model that never takes the GET path.
isSearchGPT_never(model) == FALSE
\* model === 'searchgpt'
isSearchGPT(model) == model = searchgpt

\* options.model || 'openai'
modelOf(model) == IF model # Undefined THEN model ELSE defaultTextModel

\* pollinationAPI.generateSearchGPTResponse(prompt), fetch answering with net.
generateSearchGPTResponse(prompt, net) ==
    IF LoneSurrogate \in Range(prompt)
    THEN Rejected(<<>>, "Failed to generate SearchGPT response")
    ELSE LET request == GetRequest(baseTextUrl \o <<"/">> \o encodeURIComponent(prompt)
                                       \o <<"?", "m", "o", "d", "e", "l", "=", "s", "e", "a", "r", "c", "h", "g", "p", "t">>)
         IN  IF net.failed THEN Rejected(<<request>>, "Failed to generate SearchGPT response")
             ELSE IF ~net.ok THEN Rejected(<<request>>, "Failed to generate SearchGPT response")
             ELSE IF net.contentType # Undefined /\ includes(net.contentType, <<"a", "p", "p", "l", "i", "c", "a", "t", "i", "o", "n", "/", "j", "s", "o", "n">>)
                  THEN IF net.body.kind = "object"
                       THEN Resolved(<<request>>, orFallback(searchGPTText(net.body)))
                       ELSE Rejected(<<request>>, "Failed to generate SearchGPT response")
                  ELSE Resolved(<<request>>, orFallback(bodyText(net.body)))

\* The POST of generateText and generateTextWithHistory and what follows it.
postMessages(model, msgs, net) ==
    LET request == PostRequest(baseTextUrl \o <<"/">> \o model, msgs)
    IN  IF net.failed THEN Rejected(<<request>>, "Failed to generate text response")
        ELSE IF ~net.ok THEN Rejected(<<request>>, "Failed to generate text response")
        ELSE IF net.body.kind = "object"
             THEN Resolved(<<request>>, orFallback(net.body.choicesContent))
             ELSE Rejected(<<request>>, "Failed to generate text response")

\* pollinationAPI.generateText(prompt, { model })
generateText(prompt, model, net) ==
    IF isSearchGPT(modelOf(model))
    THEN generateSearchGPTResponse(prompt, net)
    ELSE postMessages(modelOf(model),
                      <<[role |-> "system", content |-> defaultSystem],
                        [role |-> "user", content |-> prompt]>>, net)

\* pollinationAPI.generateTextWithHistory(currentPrompt, conversationHistory, { model })
generateTextWithHistory(currentPrompt, conversationHistory, model, net) ==
    IF isSearchGPT(modelOf(model))
    THEN generateSearchGPTResponse(currentPrompt, net)
    ELSE postMessages(modelOf(model), conversationHistory, net)

\* -------------------------------------------------------------- model lists
\* The values of the array a models endpoint answers with.
JString(text) == [t |-> "string", text |-> text]
JNumber(n) == [t |-> "number", n |-> n]
JNullValue == [t |-> "null"]
JUndefined == [t |-> "undefined"]
\* An object; name is Undefined when it has no (truthy) name property.
JModel(name, description) == [t |-> "object", name |-> name, description |-> description]

\* A body that is a JSON array, and one that is a JSON object with a models property.
JsonArray(items) == [kind |-> "array", items |-> items]
JsonWrapped(items) == [kind |-> "wrapped", items |-> items]

defaultTextModels == <<<<"o", "p", "e", "n", "a", "i">>, <<"c", "l", "a", "u", "d", "e">>, <<"l", "l", "a", "m", "a">>, <<"m", "i", "s", "t", "r", "a", "l">>, <<"s", "e", "a", "r", "c", "h", "g", "p", "t">>>>
defaultImageModels == <<<<"f", "l", "u", "x">>, <<"f", "l", "u", "x", "-", "r", "e", "a", "l", "i", "s", "m">>, <<"a", "n", "y", "-", "d", "a", "r", "k">>, <<"f", "l", "u", "x", "-", "a", "n", "i", "m", "e">>, <<"f", "l", "u", "x", "-", "3", "d">>, <<"t", "u", "r", "b", "o">>>>

\* model.name of one value of the array: a string and a number have no name.
nameOf(item) ==
    IF item.t = "object" /\ item.name # Undefined THEN JString(item.name) ELSE JUndefined

\* The list a models function returns, as JSON values; of a default list, strings.
asStrings(names) == [i \in 1..Len(names) |-> JString(names[i])]

\* The body shared by getTextModels and getImageModels: they differ in the URL
\* and in the default list.  The result is what the promise resolves with.
getModels(net, default) ==
    IF net.failed THEN asStrings(default)
    ELSE IF ~net.ok THEN asStrings(default)
    ELSE IF net.body.kind \in {"text", "null", "object", "wrapped"} THEN asStrings(default)
    ELSE LET data == net.body.items
         IN  IF Len(data) > 0 /\ data[1].t = "null" THEN asStrings(default)
             ELSE IF Len(data) > 0 /\ data[1].t = "object" /\ data[1].name # Undefined
                  THEN IF \E i \in 1..Len(data) : data[i].t = "null"
                       THEN asStrings(default)
                       ELSE [i \in 1..Len(data) |-> nameOf(data[i])]
                  ELSE data

\* pollinationAPI.getTextModels()
getTextModels(net) == getModels(net, defaultTextModels)
\* pollinationAPI.getImageModels()
getImageModels(net) == getModels(net, defaultImageModels)

\* ------------------------------------------------ calls of the text service
TextPrompts == {<<"w", "h", "a", "t", " ", "i", "s", " ", "2", "+", "2", "?">>, <<"x", LoneSurrogate>>}
\* options.model: none, the special model, another model.
TextModels == {Undefined, searchgpt, <<"m", "i", "s", "t", "r", "a", "l">>}

FromChoices == <<"f", "r", "o", "m", " ", "c", "h", "o", "i", "c", "e", "s">>
FromContent == <<"f", "r", "o", "m", " ", "c", "o", "n", "t", "e", "n", "t">>
FromResponse == <<"f", "r", "o", "m", " ", "r", "e", "s", "p", "o", "n", "s", "e">>

TextBodies ==
    {JsonObject(a, b, c) : a \in {Undefined, FromChoices}, b \in {Undefined, FromContent},
                           c \in {Undefined, FromResponse}}
        \cup {JsonNull, PlainBody(<<"p", "l", "a", "i", "n", " ", "a", "n", "s", "w", "e", "r">>), PlainBody(<<>>)}

ContentTypes == {Undefined, <<"t", "e", "x", "t", "/", "p", "l", "a", "i", "n", ";", " ", "c", "h", "a", "r", "s", "e", "t", "=", "u", "t", "f", "-", "8">>, <<"a", "p", "p", "l", "i", "c", "a", "t", "i", "o", "n", "/", "j", "s", "o", "n", ";", " ", "c", "h", "a", "r", "s", "e", "t", "=", "u", "t", "f", "-", "8">>}

Responses(bodies) ==
    {NetworkFailure} \cup {Response(ok, ct, b) : ok \in BOOLEAN, ct \in ContentTypes, b \in bodies}

CallGenerateText ==
    /\ api = NoCall
    /\ \E prompt \in TextPrompts, model \in TextModels, net \in Responses(TextBodies) :
           api' = [op |-> "generateText", prompt |-> prompt, model |-> model, net |-> net,
                   result |-> generateText(prompt, model, net)]
    /\ UNCHANGED chatVars

CallGenerateTextWithHistory ==
    /\ api = NoCall
    /\ \E prompt \in TextPrompts, model \in TextModels, net \in Responses(TextBodies) :
           LET history == buildConversationHistory(modelOf(model), logOf(2, 0), prompt, <<>>)
           IN  api' = [op |-> "generateTextWithHistory", prompt |-> prompt, model |-> model,
                       conversationHistory |-> history, net |-> net,
                       result |-> generateTextWithHistory(prompt, history, model, net)]
    /\ UNCHANGED chatVars

ModelDescription == <<"a", " ", "m", "o", "d", "e", "l">>
ModelArrays ==
    { <<JString(<<"o", "p", "e", "n", "a", "i">>), JString(<<"q", "w", "e", "n">>)>>,
      <<JModel(<<"o", "p", "e", "n", "a", "i">>, ModelDescription), JModel(<<"q", "w", "e", "n">>, ModelDescription)>>,
      <<>>,
      <<JModel(Undefined, ModelDescription)>>,
      <<JNumber(1), JNumber(2)>>,
      <<JNullValue>>,
      <<JModel(<<"o", "p", "e", "n", "a", "i">>, ModelDescription), JString(<<"q", "w", "e", "n">>)>>,
      <<JModel(<<"o", "p", "e", "n", "a", "i">>, ModelDescription), JNullValue>>,
      <<JString(<<"o", "p", "e", "n", "a", "i">>), JModel(<<"q", "w", "e", "n">>, ModelDescription)>> }

ModelBodies ==
    {JsonArray(items) : items \in ModelArrays}
        \cup {JsonWrapped(<<JString(<<"o", "p", "e", "n", "a", "i">>)>>), JsonObject(Undefined, Undefined, Undefined),
              JsonNull, PlainBody(<<"B", "a", "d", " ", "G", "a", "t", "e", "w", "a", "y">>)}

CallGetTextModels ==
    /\ api = NoCall
    /\ \E net \in Responses(ModelBodies) :
           api' = [op |-> "getTextModels", net |-> net, default |-> defaultTextModels,
                   result |-> getTextModels(net)]
    /\ UNCHANGED chatVars

CallGetImageModels ==
    /\ api = NoCall
    /\ \E net \in Responses(ModelBodies) :
           api' = [op |-> "getImageModels", net |-> net, default |-> defaultImageModels,
                   result |-> getImageModels(net)]
    /\ UNCHANGED chatVars

\* ------------------------------------------------ generateImage, all options
\* ImageGenerationOptions: `given` holds the names of the options supplied;
\* width, height, seed and model are read only when their name is in it.
ImageOptions(given, enhancePrompt, width, height, model, seed) ==
    [given |-> given, enhancePrompt |-> enhancePrompt, width |-> width, height |-> height,
     model |-> model, seed |-> seed]

\* (options.width || 1024): an option that is missing or 0 gives the default.
orDefault(isGiven, n, default) == IF isGiven /\ n # 0 THEN n ELSE default

\* if (options.seed) params.append('seed', options.seed.toString())
seedParam(options) ==
    IF "seed" \in options.given /\ options.seed # 0
    THEN <<"&", "s", "e", "e", "d", "=">> \o decimalText(options.seed)
    ELSE <<>>

\* pollinationAPI.generateImage(prompt, options): the requests it issues (it
\* has no fetch) and the URL it resolves with, or the error it rejects with.
generateImageOptions(prompt, options) ==
    LET finalPrompt == IF options.enhancePrompt # "false" THEN enhanceImagePrompt(prompt) ELSE prompt
        model == IF "model" \in options.given THEN options.model ELSE inferImageModel(finalPrompt)
    IN  IF LoneSurrogate \in Range(finalPrompt)
        THEN Rejected(<<>>, "Failed to generate image")
        ELSE Resolved(<<>>,
                 baseImageUrl \o encodeURIComponent(finalPrompt)
                     \o <<"?", "w", "i", "d", "t", "h", "=">> \o decimalText(orDefault("width" \in options.given, options.width, 1024))
                     \o <<"&", "h", "e", "i", "g", "h", "t", "=">> \o decimalText(orDefault("height" \in options.given, options.height, 1024))
                     \o <<"&", "m", "o", "d", "e", "l", "=">> \o model
                     \o <<"&", "n", "o", "l", "o", "g", "o", "=", "t", "r", "u", "e">>
                     \o seedParam(options))

ImagePrompts == {<<"a", " ", "r", "e", "d", " ", "a", "p", "p", "l", "e">>, <<"a", "n", "i", "m", "e", " ", "c", "a", "t", " ", "p", "o", "r", "t", "r", "a", "i", "t", " ", "i", "n", " ", "a", " ", "d", "a", "r", "k", " ", "f", "o", "r", "e", "s", "t">>, <<"x", LoneSurrogate>>}
Seeds == {0, 1, 42}
GivenOptions == SUBSET {"width", "height", "model", "seed"}

CallGenerateImageOptions ==
    /\ api = NoCall
    /\ \E prompt \in ImagePrompts, given \in GivenOptions, e \in EnhanceOptions, seed \in Seeds :
           LET options == ImageOptions(given, e, 512, 768, <<"t", "u", "r", "b", "o">>, seed)
           IN  api' = [op |-> "generateImageOptions", prompt |-> prompt, options |-> options,
                       result |-> generateImageOptions(prompt, options)]
    /\ UNCHANGED chatVars

\* ------------------------------------------- the text call of a send turn
\* pollinationAPI.cleanImagePrompt
cleanImagePrompt(message) ==
    trim(stripRequest(stripLeading(message, <<"/", "i", "m", "a", "g", "i", "n", "e">>)))

\* The prompt of the text call of an enhanced-image turn.
imageInstruction(imagePrompt) ==
    <<"T", "h", "e", " ", "u", "s", "e", "r", " ", "w", "a", "n", "t", "s", " ", "t", "o", " ", "g", "e", "n", "e", "r", "a", "t", "e", " ", "a", "n", " ", "i", "m", "a", "g", "e", " ", "w", "i", "t", "h", " ", "t", "h", "i", "s", " ", "p", "r", "o", "m", "p", "t", ":", " ", "\"">> \o imagePrompt
        \o <<"\"", ".", " ", "T", "h", "e", " ", "p", "r", "o", "m", "p", "t", " ", "w", "i", "l", "l", " ", "b", "e", " ", "e", "n", "h", "a", "n", "c", "e", "d", " ", "f", "o", "r", " ", "b", "e", "t", "t", "e", "r", " ", "r", "e", "s", "u", "l", "t", "s", ".", " ", "P", "r", "o", "v", "i", "d", "e", " ", "a", " ", "b", "r", "i", "e", "f", ",", " ", "e", "n", "c", "o", "u", "r", "a", "g", "i", "n", "g", " ", "r", "e", "s", "p", "o", "n", "s", "e", " ", "a", "b", "o", "u", "t", " ", "t", "h", "e", " ", "i", "m", "a", "g", "e", " ", "g", "e", "n", "e", "r", "a", "t", "i", "o", "n", " ", "a", "n", "d", " ", "d", "e", "s", "c", "r", "i", "b", "e", " ", "w", "h", "a", "t", " ", "t", "h", "e", "y", " ", "m", "i", "g", "h", "t", " ", "e", "x", "p", "e", "c", "t", " ", "t", "o", " ", "s", "e", "e", ".", " ", "K", "e", "e", "p", " ", "i", "t", " ", "u", "n", "d", "e", "r", " ", "1", "0", "0", " ", "w", "o", "r", "d", "s", ".", " ", "C", "o", "n", "s", "i", "d", "e", "r", " ", "t", "h", "e", " ", "c", "o", "n", "v", "e", "r", "s", "a", "t", "i", "o", "n", " ", "c", "o", "n", "t", "e", "x", "t", " ", "w", "h", "e", "n", " ", "c", "r", "a", "f", "t", "i", "n", "g", " ", "y", "o", "u", "r", " ", "r", "e", "s", "p", "o", "n", "s", "e", ".">>

\* handleSendMessage from `const userMessage` to the text call of a turn that
\* is not a raw-image turn (lines 440-449, 500-546): log is `messages` of the
\* closure, processedFiles the attachments read.  The history built, the
\* prompt passed and the call's result.
textTurn(log, content, processedFiles, currentModel, net) ==
    LET userMessage == LogMessage(content, TRUE, Undefined, processedFiles)
        updatedMessages == Append(log, userMessage)
        conversationHistory == buildConversationHistory(currentModel, updatedMessages, content, processedFiles)
        prompt == IF isImageRequest(content) THEN imageInstruction(cleanImagePrompt(content)) ELSE content
    IN  [branch |-> IF isImageRequest(content) THEN "enhanced" ELSE "plain",
         conversationHistory |-> conversationHistory,
         prompt |-> prompt,
         text |-> generateTextWithHistory(prompt, conversationHistory, currentModel, net)]

\* currentModel: 'openai' at first, then what the model selector set.
CurrentModels == {defaultTextModel, searchgpt, <<"m", "i", "s", "t", "r", "a", "l">>}
\* A plain-text message and an enhanced-image message.
TurnContents == {Contents[1], Contents[2]}
TurnResponses ==
    {NetworkFailure,
     Response(TRUE, <<"a", "p", "p", "l", "i", "c", "a", "t", "i", "o", "n", "/", "j", "s", "o", "n">>, JsonObject(FromChoices, Undefined, Undefined))}

CallTextTurn ==
    /\ api = NoCall
    /\ \E kinds \in TurnKinds, content \in TurnContents, files \in {<<>>, <<pngFile>>},
          model \in CurrentModels, net \in TurnResponses :
           LET log == logFromKinds(kinds)
               turn == textTurn(log, content, files, model, net)
           IN  api' = [op |-> "textTurn", kinds |-> kinds, log |-> log, content |-> content,
                       processedFiles |-> files, model |-> model, net |-> net,
                       branch |-> turn.branch, conversationHistory |-> turn.conversationHistory,
                       prompt |-> turn.prompt, result |-> turn.text]
    /\ UNCHANGED chatVars

\* One call of a function of the service layer, or of buildConversationHistory,
\* on one of its inputs: the functions keep no state between calls.
NextApi ==
    \/ CallEnhanceImagePrompt
    \/ CallGenerateImage
    \/ CallCleanRawImagePrompt
    \/ CallBuildConversationHistory
    \/ CallGenerateText
    \/ CallGenerateTextWithHistory
    \/ CallGetTextModels
    \/ CallGetImageModels
    \/ CallGenerateImageOptions
    \/ CallTextTurn

SpecApi == Init /\ [][NextApi]_vars

\* ================================================================== claims
ChatIdsOf(chs) == {chs[i].id : i \in 1..Len(chs)}
ActiveCount(chs) == Cardinality({i \in 1..Len(chs) : chs[i].isActive})
\* The assistant messages of send s in a log.
RepliesOf(log, s) == SelectSeq(log, LAMBDA m : m.sid = s /\ m.role # "user")
AllLogs == {messages} \cup {lsMsgs[u][id] : u \in Users, id \in ChatIds}

\* C1: a send issued while no chat is active creates exactly one chat, and
\* once its deferred re-invocation (the setTimeout callback) has run, the send
\* has gone on to append its user message: it is not lost and creates no
\* further chat.
C1_SendWithoutChatProceeds ==
    \A s \in SendIds :
        sends[s].noChat =>
            /\ sends[s].created = 1
            /\ sends[s].retries > 0 => sends[s].pc \in {"files", "calls", "done"}

\* C4: at most one chat of the in-memory chat list, and at most one chat of
\* each user's persisted chat list, has isActive = true.
C4_AtMostOneActive ==
    /\ ActiveCount(chats) <= 1
    /\ \A u \in Users : ActiveCount(lsChats[u]) <= 1

\* C5: every message of the in-memory log shown for the active chat, and
\* every message of the blob persisted under a chat's key, was created by a
\* send issued while that chat was the active chat.
C5_MessagesBelongToTheirChat ==
    /\ activeChat # NoChat => \A i \in 1..Len(messages) : sends[messages[i].sid].clActive = activeChat
    /\ \A u \in Users, id \in ChatIds :
           \A i \in 1..Len(lsMsgs[u][id]) : sends[lsMsgs[u][id][i].sid].clActive = id

\* C6: no chat or message created during one user's session is written under
\* a persistence key of another user or shown in another user's session.
C6_NoCrossUserLeak ==
    /\ user # NoUser =>
           /\ \A i \in 1..Len(chats) : chats[i].owner = user
           /\ \A i \in 1..Len(messages) : sends[messages[i].sid].owner = user
    /\ \A u \in Users :
           /\ \A i \in 1..Len(lsChats[u]) : lsChats[u][i].owner = u
           /\ \A id \in ChatIds : \A i \in 1..Len(lsMsgs[u][id]) : sends[lsMsgs[u][id][i].sid].owner = u

\* C2: when a send that was dispatched returns, exactly one assistant message
\* has been appended for it, as the last message of the log: the fixed error
\* message when a call failed, the generated reply otherwise; before that the
\* log holds none, and no log ever holds two.
C2_ExactlyOneAssistantMessage ==
    [][\A s \in SendIds :
          /\ (sends[s].pc # "done" /\ sends'[s].pc = "done") =>
                LET replies == RepliesOf(messages', s)
                IN  /\ RepliesOf(messages, s) = <<>>
                    /\ Len(replies) = 1
                    /\ messages'[Len(messages')] = replies[1]
                    /\ replies[1].role = "error" <=> (sends'[s].txt = "fail" \/ sends'[s].img = "fail")
          /\ \A log \in {messages'} \cup {lsMsgs'[u][id] : u \in Users, id \in ChatIds} :
                /\ Len(RepliesOf(log, s)) <= 1
                /\ sends'[s].pc # "done" => RepliesOf(log, s) = <<>>]_vars

C2_Witness ==
    \E s \in SendIds :
        /\ sends[s].pc = "done"
        /\ sends[s].txt = "fail"
        /\ Len(messages) > 0
        /\ messages[Len(messages)] = Message(s, "error")

\* C3: an enhanced-image turn issues the text call and the image call
\* together; the message carrying text and image URL is appended only when
\* both have succeeded, and when either fails the turn ends with exactly one
\* error message: no log ever holds a partial result of the turn.
C3_EnhancedTurnAllOrNothing ==
    [][\A s \in SendIds :
          sends'[s].branch = "enhanced" =>
              /\ sends[s].branch = "none" => (sends'[s].txt # "none" /\ sends'[s].img # "none")
              /\ (sends[s].pc # "done" /\ sends'[s].pc = "done") =>
                    messages'[Len(messages')] =
                        Message(s, IF sends'[s].txt = "ok" /\ sends'[s].img = "ok" THEN "image" ELSE "error")
              /\ \A log \in {messages'} \cup {lsMsgs'[u][id] : u \in Users, id \in ChatIds} :
                    /\ RepliesOf(log, s) \in {<<>>, <<Message(s, "image")>>, <<Message(s, "error")>>}
                    /\ RepliesOf(log, s) = <<Message(s, "image")>> =>
                          (sends'[s].txt = "ok" /\ sends'[s].img = "ok")]_vars

C3_Witness ==
    \E s \in SendIds :
        /\ sends[s].branch = "enhanced"
        /\ sends[s].pc = "done"
        /\ sends[s].img = "fail"
        /\ sends[s].txt = "ok"
        /\ RepliesOf(messages, s) = <<Message(s, "error")>>

\* C10: the dispatch order is raw image > enhanced image > plain text: a text
\* that matches a raw trigger and an enhanced-image trigger takes the raw
\* branch; no text call is issued for it and no enhanced or plain reply is
\* appended.
C10_RawTakesPrecedence ==
    \A s \in SendIds :
        sends[s].branch # "none" =>
            LET c == sends[s].c
            IN  /\ sends[s].branch = "raw" <=> contentIsRaw[c]
                /\ sends[s].branch = "enhanced" <=> (~contentIsRaw[c] /\ contentIsImage[c])
                /\ (contentIsRaw[c] /\ contentIsImage[c]) =>
                      /\ sends[s].branch = "raw"
                      /\ sends[s].txt = "none"
                      /\ \A log \in AllLogs : RepliesOf(log, s) \in {<<>>, <<Message(s, "raw")>>}

C10_Witness ==
    \E s \in SendIds :
        /\ sends[s].pc = "done"
        /\ contentIsRaw[sends[s].c]
        /\ contentIsImage[sends[s].c]
        /\ Len(messages) > 0
        /\ messages[Len(messages)] = Message(s, "raw")

\* C7: after `delete chat` of chat C, C is absent from the in-memory chat
\* list and from the user's persisted chat list and no message blob remains
\* under C's key, also when C was the only chat.
C7_DeletedChatIsGone ==
    lastDelete.id # NoChat =>
        /\ lastDelete.id \notin ChatIdsOf(chats)
        /\ lastDelete.id \notin ChatIdsOf(lsChats[user])
        /\ lsMsgs[user][lastDelete.id] = <<>>

\* C8: deleting the active chat while other chats remain makes the first
\* remaining chat the active one and replaces the log with that chat's
\* persisted messages; deleting the only chat leaves no active chat and an
\* empty log; deleting another chat leaves the active chat and the log as
\* they were.
C8_DeleteActivatesFirstRemaining ==
    [][\A id \in ChatIds :
          handleDeleteChat(id) =>
              LET remaining == filterChats(chats, id)
              IN  IF activeChat = id
                  THEN IF Len(remaining) > 0
                       THEN /\ activeChat' = remaining[1].id
                            /\ chats'[1].id = remaining[1].id
                            /\ chats'[1].isActive
                            /\ messages' = lsMsgs[user][remaining[1].id]
                            /\ messages' = lsMsgs'[user][activeChat']
                       ELSE /\ activeChat' = NoChat
                            /\ messages' = <<>>
                  ELSE /\ activeChat' = activeChat
                       /\ messages' = messages]_vars

C8_Witness ==
    /\ lastDelete.id # NoChat
    /\ lastDelete.wasActive
    /\ Len(chats) > 0
    /\ activeChat = chats[1].id
    /\ chats[1].isActive
    /\ Len(messages) > 0
    /\ messages = lsMsgs[user][activeChat]

\* C9: sign-out empties the in-memory chat list, message log and active chat
\* id and changes no persisted key; the following sign-in of the same user
\* restores exactly the chat list that was persisted, the chat marked active
\* in it and that chat's persisted messages.
C9_SignOutSignInRoundTrip ==
    [][/\ SignOut =>
              /\ chats' = <<>> /\ messages' = <<>> /\ activeChat' = NoChat
              /\ lsChats' = lsChats /\ lsMsgs' = lsMsgs
       /\ \A u \in Users :
              SignIn(u) =>
                  /\ Stringify(chats') = lsChats[u]
                  /\ activeChat' = findActive(lsChats[u])
                  /\ messages' = (IF activeChat' # NoChat THEN lsMsgs[u][activeChat'] ELSE <<>>)
                  /\ lsChats' = lsChats /\ lsMsgs' = lsMsgs]_vars

\* C12: the typing indicator is true when an enhanced-image or plain-text
\* turn has issued its text call and waits for it, it is false when such a
\* turn has completed, with success or with failure, and the step of a
\* raw-image turn leaves it false.
C12_TypingIndicator ==
    [][\A s \in SendIds :
          /\ (sends[s].pc # "calls" /\ sends'[s].pc = "calls") =>
                /\ sends'[s].branch \in {"enhanced", "plain"}
                /\ sends'[s].txt = "pending"
                /\ isTyping'
          /\ (sends[s].pc # "done" /\ sends'[s].pc = "done") => ~isTyping'
          /\ (sends[s].branch = "none" /\ sends'[s].branch = "raw") =>
                (sends'[s].txt = "none" /\ ~isTyping')]_vars

C12_Witness ==
    \E s \in SendIds :
        /\ sends[s].pc = "done"
        /\ sends[s].branch = "plain"
        /\ sends[s].txt = "fail"
        /\ ~isTyping

\* The title handleSendMessage gives a chat, for each text of Contents.
contentTitle == [c \in ContentIds |-> chatTitle(Contents[c])]

\* Send s returns in this step after a successful exchange.
Succeeds(s) ==
    /\ sends[s].pc # "done"
    /\ sends'[s].pc = "done"
    /\ sends'[s].txt # "fail"
    /\ sends'[s].img # "fail"

\* C14: a successful exchange in a chat whose title is still "New Chat" sets
\* the title to the first 30 characters of the message, with "..." when the
\* message is longer; no title changes in any other way: not the title of a
\* chat already renamed, not the title of another chat, not on a failure.
C14_TitleFromFirstExchange ==
    [][\A i \in 1..Len(chats), j \in 1..Len(chats') :
          chats[i].id = chats'[j].id =>
              /\ chats'[j].title # chats[i].title =>
                    /\ chats[i].title = NewChatTitle
                    /\ \E s \in SendIds :
                          /\ Succeeds(s)
                          /\ sends'[s].clActive = chats[i].id
                          /\ chats'[j].title = contentTitle[sends'[s].c]
              /\ \A s \in SendIds :
                    (Succeeds(s) /\ sends'[s].clActive = chats[i].id /\ chats[i].title = NewChatTitle) =>
                        chats'[j].title = contentTitle[sends'[s].c]]_vars

\* The enhancement tags as one text.
EnhancementText ==
    <<"h", "i", "g", "h", "l", "y", " ", "d", "e", "t", "a", "i", "l", "e", "d", ",", " ", "b", "e", "a", "u", "t", "i", "f", "u", "l", ",", " ", "p", "r", "o", "f", "e", "s", "s", "i", "o", "n", "a", "l", " ", "q", "u", "a", "l", "i", "t", "y", ",", " ", "v", "i", "b", "r", "a", "n", "t", " ", "c", "o", "l", "o", "r", "s", ",", " ", "s", "h", "a", "r", "p", " ", "f", "o", "c", "u", "s">>

\* C19: the enhancer returns a prompt shorter than 20 characters followed by
\* ", " and the five tags joined by ", ", and any longer prompt unchanged;
\* generateImage puts the enhanced prompt in the URL exactly when
\* enhancePrompt is not false.
C19_EnhancerLimit ==
    /\ api.op = "enhanceImagePrompt" =>
           api.result = (IF Len(api.prompt) < 20
                         THEN api.prompt \o <<",", " ">> \o EnhancementText
                         ELSE api.prompt)
    /\ (api.op = "generateImage" /\ api.result.ok) =>
           LET expected == IF api.enhancePrompt # "false" /\ Len(api.prompt) < 20
                           THEN api.prompt \o <<",", " ">> \o EnhancementText
                           ELSE api.prompt
           IN  api.result.url =
                   baseImageUrl \o encodeURIComponent(expected) \o imageQuery(inferImageModel(expected))

C19_Witness ==
    /\ api.op = "generateImage"
    /\ api.enhancePrompt = "undefined"
    /\ Len(api.prompt) = 19
    /\ api.result.ok
    /\ includes(api.result.url, <<"s", "h", "a", "r", "p", "%", "2", "0", "f", "o", "c", "u", "s">>)

\* C20: for an input made of the directive tokens "/imagine", "/raw" and
\* "--raw" in any order followed by a body without a directive token,
\* cleanRawImagePrompt returns the trimmed body.
C20_DirectivesRemovedInAnyOrder ==
    api.op = "cleanRawImagePrompt" => api.result = trim(api.body)

\* For each text of Contents: the URL of its raw image is the base, the
\* encoded cleaned prompt as it is and the query, and its message is the
\* markdown image of that prompt and URL followed by the fixed lines.
rawTurnUnenhanced ==
    [c \in ContentIds |->
        rawImage[c].ok =>
            /\ rawImage[c].url =
                   baseImageUrl \o encodeURIComponent(rawPrompt[c]) \o imageQuery(inferImageModel(rawPrompt[c]))
            /\ SubSeq(rawMarkdown[c], 1, Len(rawPrompt[c]) + Len(rawImage[c].url) + 5) =
                   <<"!", "[">> \o rawPrompt[c] \o <<"]", "(">> \o rawImage[c].url \o <<")">>]

\* C11: a raw-image turn issues no text call and returns in the step that
\* dispatches it; the URL of its image holds the cleaned prompt as it is,
\* whatever its length, and the one assistant message appended for it is the
\* markdown template with that URL and that prompt.
C11_RawTurn ==
    [][\A s \in SendIds :
          (sends[s].branch = "none" /\ sends'[s].branch = "raw") =>
              LET c == sends'[s].c
              IN  /\ contentIsRaw[c]
                  /\ sends'[s].txt = "none"
                  /\ sends'[s].pc = "done"
                  /\ rawImage[c].ok <=> sends'[s].img = "ok"
                  /\ sends'[s].img = "ok" =>
                        /\ rawTurnUnenhanced[c]
                        /\ RepliesOf(messages', s) = <<Message(s, "raw")>>
                        /\ messages'[Len(messages')] = Message(s, "raw")]_vars

C11_Witness ==
    \E s \in SendIds :
        /\ sends[s].branch = "raw"
        /\ sends[s].pc = "done"
        /\ sends[s].img = "ok"
        /\ sends[s].c = 4
        /\ Len(messages) > 0
        /\ messages[Len(messages)] = Message(s, "raw")

\* C13: buildConversationHistory on a log of n messages returns 1 + min(n, 10)
\* + 1 entries: the system entry, one entry for each of the last 10 messages
\* of the log in their order, the entry of the new user turn; 12 entries for
\* a log of 15.
C13_HistoryWindow ==
    api.op = "buildConversationHistory" =>
        LET h == api.result
            n == Len(api.log)
            k == IF n < 10 THEN n ELSE 10
        IN  /\ Len(h) = 1 + k + 1
            /\ n = 15 => Len(h) = 12
            /\ h[1].role = "system"
            /\ \A j \in 1..k :
                   LET msg == api.log[n - k + j]
                       e == h[1 + j]
                   IN  /\ e.role = (IF msg.isUser THEN "user" ELSE "assistant")
                       /\ IF msg.isUser /\ Len(msg.attachedFiles) > 0
                          THEN Len(msg.content) > 0 => e.content[1] = [type |-> "text", text |-> msg.content]
                          ELSE IF ~msg.isUser /\ msg.imageUrl # Undefined
                               THEN e.content = generatedImageNote
                               ELSE e.content = msg.content
            /\ h[k + 2].role = "user"
            /\ IF Len(api.attachedFiles) > 0
               THEN h[k + 2].content[1] = [type |-> "text", text |-> api.newUserMessage]
               ELSE h[k + 2].content = api.newUserMessage

C13_Witness ==
    /\ api.op = "buildConversationHistory"
    /\ Len(api.log) = 15
    /\ Len(api.result) = 12
    /\ api.result[2].role = "assistant"
    /\ api.result[2].content = msgText(6)

\* The text-generation calls, and the path the call takes.
IsTextCall == api.op \in {"generateText", "generateTextWithHistory"}
OnGetPath == IsTextCall /\ api.model = searchgpt
searchGPTUrl(prompt) ==
    baseTextUrl \o <<"/">> \o encodeURIComponent(prompt) \o <<"?", "m", "o", "d", "e", "l", "=", "s", "e", "a", "r", "c", "h", "g", "p", "t">>

\* C15: for the model 'searchgpt' generateText and generateTextWithHistory
\* issue nothing but the GET request whose URL carries the latest prompt, with
\* no messages body, so no conversation history is sent; for every other model
\* they issue exactly one POST request to the model's URL whose body carries
\* the messages (the given history, or the system and user message).
C15_SearchGPTSingleTurn ==
    IsTextCall =>
        LET rs == api.result.requests
        IN  IF api.model = searchgpt
            THEN /\ Len(rs) <= 1
                 /\ \A i \in 1..Len(rs) :
                        /\ rs[i].method = "GET"
                        /\ rs[i].url = searchGPTUrl(api.prompt)
                        /\ rs[i].messages = <<>>
            ELSE /\ Len(rs) = 1
                 /\ rs[1].method = "POST"
                 /\ rs[1].url = baseTextUrl \o <<"/">> \o (IF api.model = Undefined THEN defaultTextModel ELSE api.model)
                 /\ Len(rs[1].messages) >= 2
                 /\ IF api.op = "generateTextWithHistory"
                    THEN rs[1].messages = api.conversationHistory
                    ELSE /\ rs[1].messages[1].role = "system"
                         /\ rs[1].messages[2] = [role |-> "user", content |-> api.prompt]

\* C15 witness: generateTextWithHistory was called for 'searchgpt' with a
\* history of several turns, sent its one GET, and resolved.
C15_Witness ==
    /\ api.op = "generateTextWithHistory"
    /\ api.model = searchgpt
    /\ Len(api.conversationHistory) > 2
    /\ Len(api.result.requests) = 1
    /\ api.result.requests[1].method = "GET"
    /\ api.result.ok

\* The call received a response with a success status.
GotSuccess == IsTextCall /\ Len(api.result.requests) = 1 /\ ~api.net.failed /\ api.net.ok
\* The response is read as JSON: always on the POST path, on the GET path when
\* the content type says so.
ReadAsJson ==
    \/ ~OnGetPath
    \/ api.net.contentType # Undefined /\ includes(api.net.contentType, <<"a", "p", "p", "l", "i", "c", "a", "t", "i", "o", "n", "/", "j", "s", "o", "n">>)
\* A well-formed response from which no content can be taken: JSON (an object
\* or null) without the fields read on that path, or an empty plain text.
NoExtractableContent ==
    IF ReadAsJson
    THEN \/ api.net.body.kind = "null"
         \/ /\ api.net.body.kind = "object"
            /\ api.net.body.choicesContent = Undefined
            /\ OnGetPath => api.net.body.content = Undefined /\ api.net.body.response = Undefined
    ELSE api.net.body.kind = "text" /\ api.net.body.text = <<>>

\* C16: a text-generation call whose request fails in transport or gets a
\* non-success status rejects with a generation error; one that gets a
\* successful response with no extractable content resolves with 'Sorry, I
\* could not generate a response.'; on the POST path and on the GET path.
C16_FailureAndFallback ==
    IsTextCall /\ Len(api.result.requests) = 1 =>
        /\ (api.net.failed \/ ~api.net.ok) => ~api.result.ok
        /\ (GotSuccess /\ NoExtractableContent) =>
               api.result.ok /\ api.result.value = fallbackText

IsModelsCall == api.op \in {"getTextModels", "getImageModels"}
AllStrings(items) == \A i \in 1..Len(items) : items[i].t = "string"
AllNamed(items) == \A i \in 1..Len(items) : items[i].t = "object" /\ items[i].name # Undefined

\* C17: getTextModels and getImageModels always resolve with a sequence of
\* strings: the array itself when the response is an array of strings, the
\* names when it is an array of objects with a name, and the default list for
\* every failed request and every other response.
C17_ModelListing ==
    IsModelsCall =>
        /\ AllStrings(api.result)
        /\ IF ~api.net.failed /\ api.net.ok /\ api.net.body.kind = "array" /\ AllStrings(api.net.body.items)
           THEN api.result = api.net.body.items
           ELSE IF ~api.net.failed /\ api.net.ok /\ api.net.body.kind = "array" /\ AllNamed(api.net.body.items)
                THEN api.result = [i \in 1..Len(api.net.body.items) |-> JString(api.net.body.items[i].name)]
                ELSE api.result = asStrings(api.default)

\* The call read a JSON object of the special model.
ReadSearchGPTJson == OnGetPath /\ GotSuccess /\ ReadAsJson /\ api.net.body.kind = "object"

C21_ImageUrl ==
    api.op = "generateImageOptions" =>
        /\ api.result.requests = <<>>
        /\ api.result.ok =>
               LET url == api.result.value
               IN  /\ includes(url, <<"w", "i", "d", "t", "h", "=">>)
                   /\ includes(url, <<"h", "e", "i", "g", "h", "t", "=">>)
                   /\ includes(url, <<"&", "m", "o", "d", "e", "l", "=">>)
                   /\ includes(url, <<"n", "o", "l", "o", "g", "o", "=", "t", "r", "u", "e">>)
                   /\ ("seed" \in api.options.given) <=> includes(url, <<"s", "e", "e", "d", "=">>)
                   /\ ("seed" \in api.options.given) =>
                          includes(url, <<"s", "e", "e", "d", "=">> \o decimalText(api.options.seed))

\* C24: in the history built from a log, the entry of every assistant message
\* of the window that an image turn produced (enhanced or raw) is the
\* placeholder '[Generated an image based on user request]' and holds no image
\* URL, and the entry of every assistant message that is text only is its
\* content, verbatim.
C24_ImagePlaceholder ==
    api.op = "buildConversationHistory" =>
        LET h == api.result
            n == Len(api.log)
            k == IF n < 10 THEN n ELSE 10
        IN  \A j \in 1..k :
                LET kind == api.kinds[n - k + j]
                    e == h[1 + j]
                IN  /\ kind \in {"image", "raw"} =>
                           /\ e.role = "assistant"
                           /\ e.content = generatedImageNote
                           /\ ~includes(e.content, baseImageUrl)
                    /\ kind = "text" =>
                           /\ e.role = "assistant"
                           /\ e.content = api.log[n - k + j].content

\* The entry of the history is the entry of the new user message of the turn.
\* A content array has at most a text part, a part for each file and a part
\* for the descriptions; every text of the logs is longer than that.
IsNewUserEntry(e) ==
    /\ e.role = "user"
    /\ IF Len(api.processedFiles) > 0
       THEN Len(e.content) <= Len(api.processedFiles) + 2
                /\ e.content[1] = [type |-> "text", text |-> api.content]
       ELSE Len(e.content) > 2 /\ e.content = api.content

\* C22: the history handed to the text call of a plain-text or enhanced-image
\* turn is the system entry, then the entries of the last (at most 10)
\* messages that were in the log before the send, then the entry of the new
\* user message, which occurs in it exactly once.
C22_TurnHistory ==
    api.op = "textTurn" =>
        LET h == api.conversationHistory
            n == Len(api.log)
            k == IF n < 10 THEN n ELSE 10
        IN  /\ Len(h) = 1 + k + 1
            /\ h[1].role = "system"
            /\ \A j \in 1..k :
                   /\ h[1 + j].role = (IF api.log[n - k + j].isUser THEN "user" ELSE "assistant")
                   /\ api.kinds[n - k + j] \in {"user", "text"} => h[1 + j].content = api.log[n - k + j].content
            /\ IsNewUserEntry(h[Len(h)])
            /\ Cardinality({j \in 1..Len(h) : IsNewUserEntry(h[j])}) = 1

\* The text of the entry holds the given text.
EntryCarries(e, text) == Len(e.content) >= Len(text) /\ includes(e.content, text)

\* C23: the request the text call of an enhanced-image turn sends carries, for
\* every text model, the instruction asking for a brief, encouraging
\* description of the cleaned image prompt.
C23_DescriptionInstruction ==
    (api.op = "textTurn" /\ api.branch = "enhanced") =>
        /\ api.prompt = imageInstruction(<<"a", " ", "c", "u", "t", "e", " ", "r", "o", "b", "o", "t", " ", "i", "n", " ", "a", " ", "g", "a", "r", "d", "e", "n">>)
        /\ \A i \in 1..Len(api.result.requests) :
               LET request == api.result.requests[i]
               IN  IF request.method = "GET"
                   THEN includes(request.url, encodeURIComponent(api.prompt))
                   ELSE \E j \in 1..Len(request.messages) : EntryCarries(request.messages[j], api.prompt)

\* No invocation of handleSendMessage is waiting for its timer, its files or
\* its calls.
NoHandlerPending == \A s \in SendIds : sends[s].pc \in {"idle", "done"}

Fields(ch) == [ch EXCEPT !.ref = 0]

\* handleNewChat called in the current render: by the sidebar, or by
\* handleSendMessage with no active chat.  (The call from the retry timer runs
\* in an old closure; it is the subject of C1.)
NewChatStep ==
    \/ handleNewChat
    \/ /\ activeChat = NoChat
       /\ \E s \in SendIds, c \in ContentIds :
              \/ SendFromPrompt(s, c)
              \/ \E att \in {"empty", "img"} : SendFromInput(s, c, att)

C27_SelectChatFrame ==
    [][\A id \in ChatIds :
          handleSelectChat(id) =>
              /\ activeChat' = id
              /\ Len(chats') = Len(chats)
              /\ \A i \in 1..Len(chats) :
                     Fields(chats'[i]) = [Fields(chats[i]) EXCEPT !.isActive = (chats[i].id = id)]
              /\ Cardinality({i \in 1..Len(chats') : chats'[i].isActive}) = 1
              /\ messages' = lsMsgs[user][id]
              /\ activeChat # NoChat => lsMsgs'[user][activeChat] = lsMsgs[user][activeChat]]_vars

\* C27 witness: the first of two chats, selected again after the second was
\* created, is the only active chat and shows its persisted messages.
C27_Witness ==
    /\ user # NoUser
    /\ lastDelete = NoDelete
    /\ NoHandlerPending
    /\ Len(chats) = 2
    /\ chats[1].isActive
    /\ ~chats[2].isActive
    /\ chats[2].title = NewChatTitle
    /\ activeChat = chats[1].id
    /\ Len(messages) > 0
    /\ messages = lsMsgs[user][activeChat]

IsPrefix(a, b) == Len(a) <= Len(b) /\ SubSeq(b, 1, Len(a)) = a

\* C28: within one chat the in-memory log only grows by appending: a step
\* that keeps the user and the active chat keeps every message of the log in
\* its place, also when a second send starts before an earlier one has
\* finished processing its attachments.
C28_LogOnlyGrows ==
    [][(user' = user /\ user # NoUser /\ activeChat' = activeChat /\ activeChat # NoChat) =>
          IsPrefix(messages, messages')]_vars

\* C29: whenever a text-generation call issued by a send is in flight, the
\* typing indicator is true.
C29_TypingWhileInFlight ==
    (\E s \in SendIds : sends[s].txt = "pending") => isTyping

\* C30: when no handler is pending, the active chat id agrees with the chat
\* list: it is the id of the one chat whose isActive is true, and it is empty
\* exactly when no chat of the list is active.
C30_ActiveChatAgrees ==
    NoHandlerPending =>
        /\ activeChat # NoChat =>
               /\ Cardinality({i \in 1..Len(chats) : chats[i].isActive}) = 1
               /\ \E i \in 1..Len(chats) : chats[i].isActive /\ chats[i].id = activeChat
        /\ activeChat = NoChat <=> ActiveCount(chats) = 0

====
